---- MODULE Spec2Model ----
(***************************************************************************)
(* Real-time messaging engine of Chat_Backend: the two websocket consumers *)
(* (chat/consumers.py), the token middleware (chat/middlewares.py) and the *)
(* rows they read and write (chat/models.py, accounts/models.py).          *)
(*                                                                         *)
(* One action is one handler run to completion.  A channel-layer           *)
(* group_send puts the event into the channel of every member of the group *)
(* (inbox); the receiving consumer's handler for that event is a separate  *)
(* action (ChatDeliver, DirectDeliver) that writes to its client (out).    *)
(* An exception that no handler catches ends the consumer (status          *)
(* "crashed"): nothing after the raising statement is executed.            *)
(***************************************************************************)
EXTENDS Integers, Sequences, FiniteSets, TLC

(* ------------------------------ bounds -------------------------------- *)

\* Inbound frames handled in one behaviour, over all sessions.
MaxFrames == 2

(* ------------------------- program constants -------------------------- *)

\* AnonymousUser has id None; stored users have ids 1, 2, ...
AnonymousUser == 0
\* A null foreign key / an absent id in a frame (falsy, as `if reply_to_id`).
NoId == 0
\* A null DateTimeField.
NoTime == 0

UserIds == {1, 2, 3}
username == [u \in UserIds \cup {AnonymousUser} |->
               CASE u = 1 -> "alice" [] u = 2 -> "bob" [] u = 3 -> "carol"
                 [] OTHER -> ""]

\* Message content: a sequence of tokens, " " being whitespace.
Placeholder == <<"This message was deleted">>
Blank == <<" ">>

IsSpace(tok) == tok = " "

RECURSIVE LStrip(_)
LStrip(c) == IF c # <<>> /\ IsSpace(Head(c)) THEN LStrip(Tail(c)) ELSE c

RECURSIVE RStrip(_)
RStrip(c) == IF c # <<>> /\ IsSpace(c[Len(c)])
               THEN RStrip(SubSeq(c, 1, Len(c) - 1)) ELSE c

\* Mutant of strip: the content is taken as it is.
strip_not_applied(c) == c

\* str.strip()
strip(c) == RStrip(LStrip(c))

Sessions == {1, 2, 3}
RoomIds == {1, 2, 3}      \* ids a handshake can name; 3 is no stored row
ConversationIds == {1, 2, 3}

\* room_group_name: f'chat_{room_id}' / f'direct_{conversation_id}'
GroupName(kind, id) == <<kind, id>>
GroupNames == {GroupName(k, i) : k \in {"chat", "direct"}, i \in RoomIds}

(* ------------------------------- state -------------------------------- *)

VARIABLES
  user_rows,        \* users table: id -> [is_online, status]
  chat_rooms,       \* ids of the chat_rooms rows
  memberships,      \* chat_room_memberships rows: [room, user, role]
  messages,         \* messages table: id -> row
  reactions,        \* message_reactions table: id -> [message, user,
                    \* reaction_type]
  conversations,    \* conversations table: id -> [participants, last_message]
  direct_messages,  \* direct_messages table: id -> row
  scope,            \* per session: the handshake [kind, token, target]
  status,           \* per session: new | open | rejected | closed | crashed
  self_user,        \* per session: self.user, the id the middleware resolved
  groups,           \* channel layer: group name -> set of sessions
  inbox,            \* channel layer: per session, events not yet handled
  out,              \* per session: frames written to the client
  nframes,          \* inbound frames handled so far (also the clock)
  last,             \* the inbound frame handled last, and how it ended
  pending           \* per session: events of a handler that has saved its
                    \* row and has not called group_send yet

db == <<user_rows, chat_rooms, memberships, messages, reactions,
        conversations, direct_messages>>
vars == <<user_rows, chat_rooms, memberships, messages, reactions,
          conversations, direct_messages, scope, status, self_user,
          groups, inbox, out, nframes, last, pending>>

\* timezone.now() of django.utils
now == nframes + 2

\* An inbound frame (the dict json.loads returns).  A key the frame does not
\* carry has the value here that data.get gives for it; nulls are the keys
\* the frame carries with the JSON value null, for which data.get gives None.
NoFrame == [type |-> "", content |-> <<>>, reply_to |-> NoId,
            message_id |-> NoId, reaction_type |-> "", action |-> "",
            is_typing |-> FALSE, message_ids |-> <<>>, nulls |-> {}]

NoMessageData == [id |-> NoId, content |-> <<>>, sender |-> AnonymousUser,
                  recipient |-> AnonymousUser, is_edited |-> FALSE,
                  is_deleted |-> FALSE, reply_to |-> NoId]

NoEvent == [type |-> "", message |-> NoMessageData, message_id |-> NoId,
            reaction_type |-> "", action |-> "", user |-> "",
            is_typing |-> FALSE, message_ids |-> <<>>]

(* --------------------------- initial state ---------------------------- *)

Handshake(kind, token, target) ==
  [kind |-> kind, token |-> token, target |-> target]

\* What the third client asks for: a non-member, an anonymous client, a
\* second session of alice, a target that is not stored, alice elsewhere,
\* or a token whose user_id (4) names no stored user.
ThirdHandshakes(kind) ==
  {Handshake(kind, 3, 1), Handshake(kind, AnonymousUser, 1),
   Handshake(kind, 1, 1), Handshake(kind, 2, 3), Handshake(kind, 1, 2),
   Handshake(kind, 4, 1)}

\* Session 1 is alice and session 2 is bob, both on room / conversation 1.
ScenariosOf(kind) ==
  {[s \in Sessions |->
      CASE s = 1 -> Handshake(kind, 1, 1)
        [] s = 2 -> Handshake(kind, 2, 1)
        [] OTHER -> third] : third \in ThirdHandshakes(kind)}

Scenarios == ScenariosOf("chat") \cup ScenariosOf("direct")

\* A messages row as Message.objects.create leaves it (field defaults).
MessageRow(room, sender, content, reply_to, created_at) ==
  [room |-> room, sender |-> sender, content |-> content,
   reply_to |-> reply_to, is_edited |-> FALSE, edited_at |-> NoTime,
   is_deleted |-> FALSE, deleted_at |-> NoTime, created_at |-> created_at]

\* A direct_messages row as DirectMessage.objects.create leaves it.
DirectMessageRow(sender, recipient, content, created_at) ==
  [sender |-> sender, recipient |-> recipient, content |-> content,
   is_read |-> FALSE, read_at |-> NoTime,
   is_edited |-> FALSE, is_deleted |-> FALSE, created_at |-> created_at]

\* Sessions 1 and 2 have joined (for a room, their users are online); the
\* third client has not connected yet.
Init ==
  /\ scope \in Scenarios
  /\ user_rows = [u \in UserIds |->
                    IF u \in {1, 2} /\ scope[1].kind = "chat"
                      THEN [is_online |-> TRUE, status |-> "online"]
                      ELSE [is_online |-> FALSE, status |-> "offline"]]
  /\ chat_rooms = {1, 2}
  /\ memberships = {[room |-> 1, user |-> 1, role |-> "admin"],
                    [room |-> 1, user |-> 2, role |-> "member"],
                    [room |-> 2, user |-> 3, role |-> "admin"],
                    [room |-> 2, user |-> 1, role |-> "member"]}
  /\ messages = (1 :> MessageRow(1, 1, <<"hi">>, NoId, 1))
                @@ (2 :> MessageRow(2, 1, <<"yo">>, NoId, 1))
  /\ reactions = (1 :> [message |-> 1, user |-> 1, reaction_type |-> "love"])
  /\ conversations = (1 :> [participants |-> {1, 2}, last_message |-> 4])
                     @@ (2 :> [participants |-> {1, 3}, last_message |-> 3])
  /\ direct_messages =
       (1 :> DirectMessageRow(2, 1, <<"hey">>, 1))
       @@ (2 :> DirectMessageRow(1, 2, <<"ho">>, 1))
       @@ (3 :> DirectMessageRow(3, 1, <<"psst">>, 1))
       @@ (4 :> [DirectMessageRow(2, 1, <<"old">>, 1) EXCEPT
                   !.is_read = TRUE, !.read_at = 1])
  /\ status = [s \in Sessions |-> IF s \in {1, 2} THEN "open" ELSE "new"]
  /\ self_user = [s \in Sessions |->
                    IF s \in {1, 2} THEN scope[s].token ELSE AnonymousUser]
  /\ groups = [g \in GroupNames |->
                 IF g = GroupName(scope[1].kind, 1) THEN {1, 2} ELSE {}]
  /\ inbox = [s \in Sessions |-> <<>>]
  /\ out = [s \in Sessions |-> <<>>]
  /\ nframes = 0
  /\ last = [n |-> 0, sess |-> 0, frame |-> NoFrame, outcome |-> "none"]
  /\ pending = [s \in Sessions |-> {}]

(* ----------------------------- middleware ----------------------------- *)

\* Mutant of get_user_from_token: a token that names no stored user falls
\* back to the first stored user.
get_user_from_token_fallback(token) ==
  IF token \in DOMAIN user_rows THEN token ELSE 1

\* get_user_from_token: the stored user the token names, else AnonymousUser.
\* An absent or invalid token is token 0.
get_user_from_token(token) ==
  IF token \in DOMAIN user_rows THEN token ELSE AnonymousUser

\* User.set_online_status: the save writes is_online and status.
set_online_status(rows, user, is_online) ==
  [rows EXCEPT ![user] =
     [is_online |-> is_online,
      status |-> IF is_online THEN "online" ELSE "offline"]]

(* ------------------------ membership authority ------------------------ *)

\* Mutant of is_room_member: the room is looked up, the membership is not.
is_room_member_room_only(user, room_id) ==
  room_id \in chat_rooms

\* ChatConsumer.is_room_member
is_room_member(user, room_id) ==
  /\ room_id \in chat_rooms
  /\ \E m \in memberships : m.room = room_id /\ m.user = user

\* DirectMessageConsumer.is_conversation_participant
is_conversation_participant(user, conversation_id) ==
  /\ conversation_id \in DOMAIN conversations
  /\ user \in conversations[conversation_id].participants

(* --------------------------- channel layer ---------------------------- *)

\* channel_layer.group_send: the event is queued for every channel that is
\* in the group at the moment of the call.  A channel whose consumer has
\* ended is never read again: what is sent to it is lost.
group_send(boxes, group, event) ==
  [s \in Sessions |->
     IF s \in groups[group] /\ status[s] = "open"
       THEN Append(boxes[s], event) ELSE boxes[s]]

\* The consumer of session s has ended: its channel is not read any more
\* and its transport is gone.
Gone(s) ==
  /\ inbox' = [inbox EXCEPT ![s] = <<>>]
  /\ out' = [out EXCEPT ![s] = <<>>]

room_group_name(s) ==
  GroupName(scope[s].kind, scope[s].target)

(* ------------------------- session lifecycle -------------------------- *)

\* JWTAuthMiddleware.__call__ followed by ChatConsumer.connect
ChatConnect(s) ==
  /\ scope[s].kind = "chat"
  /\ status[s] = "new"
  /\ LET user == get_user_from_token(scope[s].token)
     IN  /\ self_user' = [self_user EXCEPT ![s] = user]
         /\ IF ~is_room_member(user, scope[s].target)
              THEN /\ status' = [status EXCEPT ![s] = "rejected"]
                   /\ UNCHANGED <<groups, user_rows>>
              ELSE /\ groups' = [groups EXCEPT ![room_group_name(s)] = @ \cup {s}]
                   /\ status' = [status EXCEPT ![s] = "open"]
                   /\ user_rows' = set_online_status(user_rows, user, TRUE)
  /\ UNCHANGED <<chat_rooms, memberships, messages, reactions, conversations,
                 direct_messages, scope, inbox, out, nframes, last>>
  /\ UNCHANGED pending

\* Mutant of ChatDisconnect: the channel is left in its group and the
\* presence flip is skipped.
ChatDisconnect_no_cleanup(s) ==
  /\ scope[s].kind = "chat"
  /\ status[s] \in {"open", "rejected"}
  /\ status' = [status EXCEPT ![s] = "closed"]
  /\ UNCHANGED <<db, scope, self_user, groups, inbox, out, nframes, last>>
  /\ UNCHANGED pending

\* ChatConsumer.disconnect: also runs after connect() closed the connection.
\* AnonymousUser has no set_online_status: the call raises.
ChatDisconnect(s) ==
  /\ scope[s].kind = "chat"
  /\ status[s] \in {"open", "rejected"}
  /\ groups' = [groups EXCEPT ![room_group_name(s)] = @ \ {s}]
  /\ IF self_user[s] = AnonymousUser
       THEN /\ status' = [status EXCEPT ![s] = "crashed"]
            /\ UNCHANGED user_rows
       ELSE /\ status' = [status EXCEPT ![s] = "closed"]
            /\ user_rows' = set_online_status(user_rows, self_user[s], FALSE)
  /\ Gone(s)
  /\ UNCHANGED <<chat_rooms, memberships, messages, reactions, conversations,
                 direct_messages, scope, self_user, nframes, last>>
  /\ UNCHANGED pending

\* ChatConsumer.disconnect when channel_layer.group_discard raises (the
\* channel layer's backend is unreachable): the exception leaves
\* disconnect() before update_user_status(False) is called.
ChatDisconnectDiscardFails(s) ==
  /\ scope[s].kind = "chat"
  /\ status[s] \in {"open", "rejected"}
  /\ status' = [status EXCEPT ![s] = "crashed"]
  /\ Gone(s)
  /\ UNCHANGED <<db, scope, self_user, groups, nframes, last>>
  /\ UNCHANGED pending

\* Mutant of DirectConnect: a successful join also sets the user online.
DirectConnect_sets_online(s) ==
  /\ scope[s].kind = "direct"
  /\ status[s] = "new"
  /\ LET user == get_user_from_token(scope[s].token)
     IN  /\ self_user' = [self_user EXCEPT ![s] = user]
         /\ IF ~is_conversation_participant(user, scope[s].target)
              THEN /\ status' = [status EXCEPT ![s] = "rejected"]
                   /\ UNCHANGED <<groups, user_rows>>
              ELSE /\ groups' = [groups EXCEPT ![room_group_name(s)] = @ \cup {s}]
                   /\ status' = [status EXCEPT ![s] = "open"]
                   /\ user_rows' = set_online_status(user_rows, user, TRUE)
  /\ UNCHANGED <<chat_rooms, memberships, messages, reactions, conversations,
                 direct_messages, scope, inbox, out, nframes, last, pending>>

\* JWTAuthMiddleware.__call__ followed by DirectMessageConsumer.connect
DirectConnect(s) ==
  /\ scope[s].kind = "direct"
  /\ status[s] = "new"
  /\ LET user == get_user_from_token(scope[s].token)
     IN  /\ self_user' = [self_user EXCEPT ![s] = user]
         /\ IF ~is_conversation_participant(user, scope[s].target)
              THEN /\ status' = [status EXCEPT ![s] = "rejected"]
                   /\ UNCHANGED groups
              ELSE /\ groups' = [groups EXCEPT ![room_group_name(s)] = @ \cup {s}]
                   /\ status' = [status EXCEPT ![s] = "open"]
  /\ UNCHANGED <<db, scope, inbox, out, nframes, last>>
  /\ UNCHANGED pending

\* DirectMessageConsumer.disconnect
DirectDisconnect(s) ==
  /\ scope[s].kind = "direct"
  /\ status[s] \in {"open", "rejected"}
  /\ groups' = [groups EXCEPT ![room_group_name(s)] = @ \ {s}]
  /\ status' = [status EXCEPT ![s] = "closed"]
  /\ Gone(s)
  /\ UNCHANGED <<db, scope, self_user, nframes, last>>
  /\ UNCHANGED pending

(* ---------------------- handlers of group events ---------------------- *)

\* Mutant of NotFromSelf: the handler echoes the event to its originator.
NotFromSelf_echo(s, event) ==
  TRUE

\* typing_indicator / messages_read: `if event['user'] != self.user.username`
NotFromSelf(s, event) ==
  event.user # username[self_user[s]]

\* Whether ChatConsumer's handler for the event writes it to the client:
\* chat_message, message_reaction, message_edited, message_deleted always,
\* typing_indicator unless it is the session user's own.
ChatForwards(s, event) ==
  IF event.type = "typing_indicator" THEN NotFromSelf(s, event) ELSE TRUE

\* The same for DirectMessageConsumer: direct_message always,
\* typing_indicator and messages_read unless they are the session user's own.
DirectForwards(s, event) ==
  IF event.type \in {"typing_indicator", "messages_read"}
    THEN NotFromSelf(s, event) ELSE TRUE

\* ChatConsumer.chat_message, typing_indicator, message_reaction,
\* message_edited, message_deleted: the next event of the session's channel.
ChatDeliver(s) ==
  /\ scope[s].kind = "chat"
  /\ status[s] = "open"
  /\ inbox[s] # <<>>
  /\ inbox' = [inbox EXCEPT ![s] = Tail(@)]
  /\ out' = [out EXCEPT ![s] =
               IF ChatForwards(s, Head(inbox[s]))
                 THEN Append(@, Head(inbox[s])) ELSE @]
  /\ UNCHANGED <<db, scope, status, self_user, groups, nframes, last>>
  /\ UNCHANGED pending

\* ChatConsumer's event handlers when the session's transport has gone and
\* its disconnect has not been handled yet: self.send either is dropped by
\* the server, the handler ending normally, or raises; the handlers catch
\* nothing, so the exception ends the consumer and disconnect() is not run.
ChatDeliverTransportGone(s) ==
  /\ scope[s].kind = "chat"
  /\ status[s] = "open"
  /\ inbox[s] # <<>>
  /\ ChatForwards(s, Head(inbox[s]))
  /\ \/ /\ inbox' = [inbox EXCEPT ![s] = Tail(@)]
        /\ UNCHANGED <<status, out>>
     \/ /\ status' = [status EXCEPT ![s] = "crashed"]
        /\ Gone(s)
  /\ UNCHANGED <<db, scope, self_user, groups, nframes, last, pending>>

\* DirectMessageConsumer.direct_message, typing_indicator, messages_read
DirectDeliver(s) ==
  /\ scope[s].kind = "direct"
  /\ status[s] = "open"
  /\ inbox[s] # <<>>
  /\ inbox' = [inbox EXCEPT ![s] = Tail(@)]
  /\ out' = [out EXCEPT ![s] =
               IF DirectForwards(s, Head(inbox[s]))
                 THEN Append(@, Head(inbox[s])) ELSE @]
  /\ UNCHANGED <<db, scope, status, self_user, groups, nframes, last>>
  /\ UNCHANGED pending

(* ----------------------------- serializers ---------------------------- *)

\* The names chat/serializers.py can reach through its `models`, which
\* `from chat_project.accounts import models` binds to accounts/models.py:
\* that module's own imports and classes.
SerializersModelsNames ==
  {"AbstractUser", "models", "timezone", "User", "UserProfile"}

\* MessageSerializer(message).data evaluates get_reaction_counts, which
\* reads models.Count: an AttributeError when `models` has no Count.
serialize_message_raises == "Count" \notin SerializersModelsNames

\* MessageSerializer.data of a messages row (the fields the claims read).
MessageData(id, row) ==
  [id |-> id, content |-> row.content, sender |-> row.sender,
   recipient |-> AnonymousUser, is_edited |-> row.is_edited,
   is_deleted |-> row.is_deleted, reply_to |-> row.reply_to]

\* DirectMessageSerializer.data of a direct_messages row.
DirectMessageData(id, row) ==
  [id |-> id, content |-> row.content, sender |-> row.sender,
   recipient |-> row.recipient, is_edited |-> row.is_edited,
   is_deleted |-> row.is_deleted, reply_to |-> NoId]

(* ----------------------- message state machine ------------------------ *)

Max(S) == CHOOSE x \in S : \A y \in S : y <= x

\* The id the next INSERT into a table gets.
NextId(table) == IF DOMAIN table = {} THEN 1 ELSE Max(DOMAIN table) + 1

\* Mutant of ChatRoom_objects_get: the room is never looked up.
ChatRoom_objects_get_unchecked(room_id) == TRUE

\* save_message: ChatRoom.objects.get(id=self.room_id) finds the row, or
\* raises DoesNotExist (save_message then returns None).
ChatRoom_objects_get(room_id) == room_id \in chat_rooms

\* save_direct_message: Conversation.objects.get(id=self.conversation_id).
Conversation_objects_get(conversation_id) ==
  conversation_id \in DOMAIN conversations

\* Mutant of ReplyTarget: the lookup of the reply target leaves out room=.
ReplyTarget_any_room(room_id, reply_to_id) ==
  IF reply_to_id # NoId /\ reply_to_id \in DOMAIN messages
    THEN reply_to_id ELSE NoId

\* save_message: Message.objects.get(id=reply_to_id, room=room), None when
\* reply_to_id is falsy or no such row is in the room.
ReplyTarget(room_id, reply_to_id) ==
  IF /\ reply_to_id # NoId
     /\ reply_to_id \in DOMAIN messages
     /\ messages[reply_to_id].room = room_id
    THEN reply_to_id ELSE NoId

\* save_message: the row Message.objects.create inserts.
NewMessage(user, room_id, content, reply_to_id) ==
  MessageRow(room_id, user, content, ReplyTarget(room_id, reply_to_id), now)

\* Mutant of EditLookup: the sender is not part of the lookup.
EditLookup_any_sender(user, room_id, message_id) ==
  /\ message_id \in DOMAIN messages
  /\ messages[message_id].room = room_id

\* edit_message: Message.objects.get(id=, room_id=, sender=) finds a row.
EditLookup(user, room_id, message_id) ==
  /\ message_id \in DOMAIN messages
  /\ messages[message_id].room = room_id
  /\ messages[message_id].sender = user

\* Mutant of DeleteLookup: the sender is not part of the lookup.
DeleteLookup_any_sender(user, room_id, message_id) ==
  /\ message_id \in DOMAIN messages
  /\ messages[message_id].room = room_id

\* Mutant of DeleteLookup: the room is not part of the lookup.
DeleteLookup_any_room(user, room_id, message_id) ==
  /\ message_id \in DOMAIN messages
  /\ messages[message_id].sender = user

\* delete_message: Message.objects.get(id=, room_id=, sender=) finds a row.
DeleteLookup(user, room_id, message_id) ==
  /\ message_id \in DOMAIN messages
  /\ messages[message_id].room = room_id
  /\ messages[message_id].sender = user

\* add/remove_message_reaction: Message.objects.get(id=, room_id=) finds a row.
ReactionLookup(room_id, message_id) ==
  /\ message_id \in DOMAIN messages
  /\ messages[message_id].room = room_id

\* Message.edit_message
Message_edit_message(row, new_content) ==
  [row EXCEPT !.content = new_content, !.is_edited = TRUE, !.edited_at = now]

\* Message.delete_message
Message_delete_message(row) ==
  [row EXCEPT !.is_deleted = TRUE, !.deleted_at = now,
              !.content = Placeholder]

Reaction(message_id, user, reaction_type) ==
  [message |-> message_id, user |-> user, reaction_type |-> reaction_type]

\* The ids of the message_reactions rows that hold the triple of row.
Matching(row) ==
  {id \in DOMAIN reactions : reactions[id] = row}

\* Mutant of unique_together: the table has no unique constraint.
unique_together_not_enforced(row) ==
  TRUE

\* MessageReaction.Meta.unique_together: whether the table takes an INSERT
\* of row.
unique_together(row) ==
  Matching(row) = {}

\* add_message_reaction: get_or_create of the (message, user, kind) row.
add_message_reaction(user, room_id, message_id, reaction_type) ==
  IF /\ ReactionLookup(room_id, message_id)
     /\ Matching(Reaction(message_id, user, reaction_type)) = {}
    THEN reactions @@ (NextId(reactions) :>
                         Reaction(message_id, user, reaction_type))
    ELSE reactions

\* Mutant of remove_message_reaction: the filter leaves out user=.
remove_message_reaction_any_user(user, room_id, message_id, reaction_type) ==
  IF ReactionLookup(room_id, message_id)
    THEN [id \in {i \in DOMAIN reactions :
                    ~(/\ reactions[i].message = message_id
                      /\ reactions[i].reaction_type = reaction_type)} |->
            reactions[id]]
    ELSE reactions

\* remove_message_reaction: filter(...).delete()
remove_message_reaction(user, room_id, message_id, reaction_type) ==
  IF ReactionLookup(room_id, message_id)
    THEN [id \in DOMAIN reactions \
                  Matching(Reaction(message_id, user, reaction_type)) |->
            reactions[id]]
    ELSE reactions

(* ------------------------ ChatConsumer.receive ------------------------ *)

\* What the model's clients put into frames.
ContentInputs == {Blank, <<" ", "new", " ">>}
MessageIdInputs == DOMAIN messages \cup {NextId(messages)}
ReplyToInputs == DOMAIN messages \cup {NoId}
ReactionTypeInputs == {"like", "love"}
ActionInputs == {"add", "remove"}

\* Contents `if not content` turns away: an absent or empty content, one
\* space, two spaces.
BlankInputs == {<<>>, Blank, <<" ", " ">>}

\* A session that can take its next inbound frame.
CanReceive(s, kind) ==
  /\ scope[s].kind = kind
  /\ status[s] = "open"
  /\ nframes < MaxFrames

\* Bookkeeping of one handled frame.
Handled(s, frame, outcome) ==
  /\ nframes' = nframes + 1
  /\ last' = [n |-> nframes + 1, sess |-> s, frame |-> frame,
              outcome |-> outcome]

\* An exception no handler catches ends the consumer; disconnect() is not
\* run, so the channel stays in its group.
Crash(s) == status' = [status EXCEPT ![s] = "crashed"]

\* receive -> handle_chat_message
HandleChatMessage(s, content, reply_to) ==
  /\ CanReceive(s, "chat")
  /\ LET frame == [NoFrame EXCEPT !.type = "chat_message",
                                  !.content = content, !.reply_to = reply_to]
         c     == strip(content)
         id    == NextId(messages)
         row   == NewMessage(self_user[s], scope[s].target, c, reply_to)
         event == [NoEvent EXCEPT !.type = "chat_message",
                                  !.message = MessageData(id, row)]
     IN  IF c = <<>>
           THEN /\ Handled(s, frame, "dropped")
                /\ UNCHANGED <<messages, status, inbox, out>>
         ELSE IF ~ChatRoom_objects_get(scope[s].target)
           THEN /\ Handled(s, frame, "none")
                /\ UNCHANGED <<messages, status, inbox, out>>
         ELSE /\ messages' = messages @@ (id :> row)
              /\ IF serialize_message_raises
                   THEN /\ Handled(s, frame, "raised")
                        /\ Crash(s)
                        /\ Gone(s)
                   ELSE /\ Handled(s, frame, "sent")
                        /\ inbox' = group_send(inbox, room_group_name(s), event)
                        /\ UNCHANGED <<status, out>>
  /\ UNCHANGED <<user_rows, chat_rooms, memberships, reactions, conversations,
                 direct_messages, scope, self_user, groups>>
  /\ UNCHANGED pending

\* receive -> handle_typing
HandleTyping(s, is_typing) ==
  /\ CanReceive(s, "chat")
  /\ LET frame == [NoFrame EXCEPT !.type = "typing", !.is_typing = is_typing]
         event == [NoEvent EXCEPT !.type = "typing_indicator",
                                  !.user = username[self_user[s]],
                                  !.is_typing = is_typing]
     IN  /\ Handled(s, frame, "sent")
         /\ inbox' = group_send(inbox, room_group_name(s), event)
  /\ UNCHANGED <<db, scope, status, self_user, groups, out>>
  /\ UNCHANGED pending

\* receive -> handle_message_reaction
HandleMessageReaction(s, message_id, reaction_type, action) ==
  /\ CanReceive(s, "chat")
  /\ LET frame == [NoFrame EXCEPT !.type = "message_reaction",
                                  !.message_id = message_id,
                                  !.reaction_type = reaction_type,
                                  !.action = action]
         event == [NoEvent EXCEPT !.type = "message_reaction",
                                  !.message_id = message_id,
                                  !.reaction_type = reaction_type,
                                  !.action = action,
                                  !.user = username[self_user[s]]]
     IN  /\ reactions' =
              IF action = "add"
                THEN add_message_reaction(self_user[s], scope[s].target,
                                          message_id, reaction_type)
                ELSE remove_message_reaction(self_user[s], scope[s].target,
                                             message_id, reaction_type)
         /\ Handled(s, frame, "sent")
         /\ inbox' = group_send(inbox, room_group_name(s), event)
  /\ UNCHANGED <<user_rows, chat_rooms, memberships, messages, conversations,
                 direct_messages, scope, status, self_user, groups, out>>
  /\ UNCHANGED pending

\* receive -> handle_message_edit
HandleMessageEdit(s, message_id, content) ==
  /\ CanReceive(s, "chat")
  /\ LET frame == [NoFrame EXCEPT !.type = "message_edit",
                                  !.message_id = message_id,
                                  !.content = content]
         c     == strip(content)
         row   == Message_edit_message(messages[message_id], c)
         event == [NoEvent EXCEPT !.type = "message_edited",
                                  !.message = MessageData(message_id, row)]
     IN  IF c = <<>>
           THEN /\ Handled(s, frame, "dropped")
                /\ UNCHANGED <<messages, status, inbox, out>>
         ELSE IF ~EditLookup(self_user[s], scope[s].target, message_id)
           THEN /\ Handled(s, frame, "none")
                /\ UNCHANGED <<messages, status, inbox, out>>
         ELSE /\ messages' = [messages EXCEPT ![message_id] = row]
              /\ IF serialize_message_raises
                   THEN /\ Handled(s, frame, "raised")
                        /\ Crash(s)
                        /\ Gone(s)
                   ELSE /\ Handled(s, frame, "sent")
                        /\ inbox' = group_send(inbox, room_group_name(s), event)
                        /\ UNCHANGED <<status, out>>
  /\ UNCHANGED <<user_rows, chat_rooms, memberships, reactions, conversations,
                 direct_messages, scope, self_user, groups>>
  /\ UNCHANGED pending

\* receive -> handle_message_delete
HandleMessageDelete(s, message_id) ==
  /\ CanReceive(s, "chat")
  /\ LET frame == [NoFrame EXCEPT !.type = "message_delete",
                                  !.message_id = message_id]
         event == [NoEvent EXCEPT !.type = "message_deleted",
                                  !.message_id = message_id]
     IN  IF ~DeleteLookup(self_user[s], scope[s].target, message_id)
           THEN /\ Handled(s, frame, "none")
                /\ UNCHANGED <<messages, inbox>>
           ELSE /\ messages' = [messages EXCEPT ![message_id] =
                                  Message_delete_message(@)]
                /\ Handled(s, frame, "sent")
                /\ inbox' = group_send(inbox, room_group_name(s), event)
  /\ UNCHANGED <<user_rows, chat_rooms, memberships, reactions, conversations,
                 direct_messages, scope, status, self_user, groups, out>>
  /\ UNCHANGED pending

\* The message types ChatConsumer.receive has a branch for.
ChatRoutes ==
  {"chat_message", "typing", "message_reaction", "message_edit",
   "message_delete"}

\* Mutant of ReceiveInvalidJSON: JSONDecodeError is not caught and ends the
\* consumer.
ReceiveInvalidJSON_uncaught(s) ==
  /\ CanReceive(s, "chat")
  /\ Handled(s, [NoFrame EXCEPT !.type = "invalid_json"], "raised")
  /\ Crash(s)
  /\ Gone(s)
  /\ UNCHANGED <<db, scope, self_user, groups, pending>>

\* receive: json.loads raises JSONDecodeError -> one error frame to the sender
ReceiveInvalidJSON(s) ==
  /\ CanReceive(s, "chat")
  /\ Handled(s, [NoFrame EXCEPT !.type = "invalid_json"], "error_reply")
  /\ out' = [out EXCEPT ![s] = Append(@, [NoEvent EXCEPT !.type = "error"])]
  /\ UNCHANGED <<db, scope, status, self_user, groups, inbox>>
  /\ UNCHANGED pending

\* Mutant of ReceiveUnknownType: an else branch answers with an error frame.
ReceiveUnknownType_error_reply(s) ==
  /\ CanReceive(s, "chat")
  /\ Handled(s, [NoFrame EXCEPT !.type = "direct_message"], "error_reply")
  /\ out' = [out EXCEPT ![s] = Append(@, [NoEvent EXCEPT !.type = "error"])]
  /\ UNCHANGED <<db, scope, status, self_user, groups, inbox, pending>>

\* receive: a type none of the branches names
ReceiveUnknownType(s) ==
  /\ CanReceive(s, "chat")
  /\ Handled(s, [NoFrame EXCEPT !.type = "direct_message"], "ignored")
  /\ UNCHANGED <<db, scope, status, self_user, groups, inbox, out>>
  /\ UNCHANGED pending

(* ------------------- DirectMessageConsumer.receive -------------------- *)

\* The attributes of the `timezone` that consumers.py imports, the class
\* datetime.timezone: it has no `now`.
ConsumersTimezoneNames ==
  {"utc", "min", "max", "utcoffset", "tzname", "dst", "fromutc"}

\* mark_messages_as_read: the rows filter(id__in=, recipient=, is_read=False)
\* selects.
UnreadFor(user, message_ids) ==
  {id \in DOMAIN direct_messages :
     /\ \E i \in DOMAIN message_ids : message_ids[i] = id
     /\ direct_messages[id].recipient = user
     /\ ~direct_messages[id].is_read}

\* Mutant of mark_messages_as_read: timezone.now() works and the filter
\* keeps only id__in.
mark_messages_as_read_unfiltered(user, message_ids) ==
  [raised |-> FALSE,
   rows |-> [id \in DOMAIN direct_messages |->
               IF \E i \in DOMAIN message_ids : message_ids[i] = id
                 THEN [direct_messages[id] EXCEPT
                         !.is_read = TRUE, !.read_at = now]
                 ELSE direct_messages[id]]]

\* Mutant of mark_messages_as_read: timezone.now() works, the filter is as
\* written.
mark_messages_as_read_now_works(user, message_ids) ==
  [raised |-> FALSE,
   rows |-> [id \in DOMAIN direct_messages |->
               IF id \in UnreadFor(user, message_ids)
                 THEN [direct_messages[id] EXCEPT
                         !.is_read = TRUE, !.read_at = now]
                 ELSE direct_messages[id]]]

\* mark_messages_as_read: the argument timezone.now() is evaluated before
\* update() runs, and raises AttributeError; otherwise the selected rows
\* get is_read and read_at.
mark_messages_as_read(user, message_ids) ==
  IF "now" \notin ConsumersTimezoneNames
    THEN [raised |-> TRUE, rows |-> direct_messages]
    ELSE [raised |-> FALSE,
          rows |-> [id \in DOMAIN direct_messages |->
                      IF id \in UnreadFor(user, message_ids)
                        THEN [direct_messages[id] EXCEPT
                                !.is_read = TRUE, !.read_at = now]
                        ELSE direct_messages[id]]]

\* Conversation.get_other_participant: participants.exclude(id=user.id)
OtherParticipants(conversation_id, user) ==
  conversations[conversation_id].participants \ {user}

MessageIdsInputs == {<<1, 5>>, <<2, 4>>, <<3>>}

\* receive -> handle_direct_message
HandleDirectMessage(s, content) ==
  /\ CanReceive(s, "direct")
  /\ LET frame == [NoFrame EXCEPT !.type = "direct_message",
                                  !.content = content]
         c     == strip(content)
         id    == NextId(direct_messages)
         cid   == scope[s].target
     IN  IF c = <<>>
           THEN /\ Handled(s, frame, "dropped")
                /\ UNCHANGED <<direct_messages, conversations, status, inbox,
                               out>>
         ELSE IF ~Conversation_objects_get(cid)
           THEN /\ Handled(s, frame, "none")
                /\ UNCHANGED <<direct_messages, conversations, status, inbox,
                               out>>
         ELSE IF OtherParticipants(cid, self_user[s]) = {}
           \* recipient=None violates NOT NULL: create() raises
           THEN /\ Handled(s, frame, "raised")
                /\ Crash(s)
                /\ Gone(s)
                /\ UNCHANGED <<direct_messages, conversations>>
         ELSE \E recipient \in OtherParticipants(cid, self_user[s]) :
                LET row == DirectMessageRow(self_user[s], recipient, c, now)
                    event == [NoEvent EXCEPT
                                !.type = "direct_message",
                                !.message = DirectMessageData(id, row)]
                IN  /\ direct_messages' = direct_messages @@ (id :> row)
                    /\ conversations' =
                         [conversations EXCEPT ![cid].last_message = id]
                    /\ Handled(s, frame, "sent")
                    /\ inbox' = group_send(inbox, room_group_name(s), event)
                    /\ UNCHANGED <<status, out>>
  /\ UNCHANGED <<user_rows, chat_rooms, memberships, messages, reactions,
                 scope, self_user, groups>>
  /\ UNCHANGED pending

\* receive -> handle_typing
DirectHandleTyping(s, is_typing) ==
  /\ CanReceive(s, "direct")
  /\ LET frame == [NoFrame EXCEPT !.type = "typing", !.is_typing = is_typing]
         event == [NoEvent EXCEPT !.type = "typing_indicator",
                                  !.user = username[self_user[s]],
                                  !.is_typing = is_typing]
     IN  /\ Handled(s, frame, "sent")
         /\ inbox' = group_send(inbox, room_group_name(s), event)
  /\ UNCHANGED <<db, scope, status, self_user, groups, out>>
  /\ UNCHANGED pending

\* receive -> handle_message_read
HandleMessageRead(s, message_ids) ==
  /\ CanReceive(s, "direct")
  /\ LET frame == [NoFrame EXCEPT !.type = "message_read",
                                  !.message_ids = message_ids]
         res   == mark_messages_as_read(self_user[s], message_ids)
         event == [NoEvent EXCEPT !.type = "messages_read",
                                  !.message_ids = message_ids,
                                  !.user = username[self_user[s]]]
     IN  /\ direct_messages' = res.rows
         /\ IF res.raised
              THEN /\ Handled(s, frame, "raised")
                   /\ Crash(s)
                   /\ Gone(s)
              ELSE /\ Handled(s, frame, "sent")
                   /\ inbox' = group_send(inbox, room_group_name(s), event)
                   /\ UNCHANGED <<status, out>>
  /\ UNCHANGED <<user_rows, chat_rooms, memberships, messages, reactions,
                 conversations, scope, self_user, groups>>
  /\ UNCHANGED pending

\* The message types DirectMessageConsumer.receive has a branch for.
DirectRoutes ==
  {"direct_message", "typing", "message_read"}

\* receive: json.loads raises JSONDecodeError -> one error frame to the sender
DirectReceiveInvalidJSON(s) ==
  /\ CanReceive(s, "direct")
  /\ Handled(s, [NoFrame EXCEPT !.type = "invalid_json"], "error_reply")
  /\ out' = [out EXCEPT ![s] = Append(@, [NoEvent EXCEPT !.type = "error"])]
  /\ UNCHANGED <<db, scope, status, self_user, groups, inbox>>
  /\ UNCHANGED pending

\* receive: a type none of the branches names
DirectReceiveUnknownType(s) ==
  /\ CanReceive(s, "direct")
  /\ Handled(s, [NoFrame EXCEPT !.type = "chat_message"], "ignored")
  /\ UNCHANGED <<db, scope, status, self_user, groups, inbox, out>>
  /\ UNCHANGED pending

(* ------------------- handlers, one await at a time -------------------- *)

\* Mutant of Idle: receive() starts a handler without awaiting the one
\* before it.
Idle_not_awaited(s) ==
  TRUE

\* receive() awaits the handler it calls and the handler awaits its
\* group_send: while an event of the session is still to be sent, the
\* consumer takes no other message.
Idle(s) ==
  pending[s] = {}

\* handle_direct_message up to the await of save_direct_message: the row is
\* stored and the conversation's last_message set; the event is not sent yet.
SaveDirectMessage(s, content) ==
  /\ CanReceive(s, "direct")
  /\ Idle(s)
  /\ LET frame == [NoFrame EXCEPT !.type = "direct_message",
                                  !.content = content]
         c     == strip(content)
         id    == NextId(direct_messages)
         cid   == scope[s].target
     IN  /\ c # <<>>
         /\ cid \in DOMAIN conversations
         /\ \E recipient \in OtherParticipants(cid, self_user[s]) :
              LET row == DirectMessageRow(self_user[s], recipient, c, now)
                  event == [NoEvent EXCEPT
                              !.type = "direct_message",
                              !.message = DirectMessageData(id, row)]
              IN  /\ direct_messages' = direct_messages @@ (id :> row)
                  /\ conversations' =
                       [conversations EXCEPT ![cid].last_message = id]
                  /\ pending' = [pending EXCEPT ![s] = @ \cup {event}]
                  /\ Handled(s, frame, "saved")
  /\ UNCHANGED <<user_rows, chat_rooms, memberships, messages, reactions,
                 scope, status, self_user, groups, inbox, out>>

\* handle_direct_message from serialize_direct_message on: the event of the
\* stored row is sent to the group.
SendDirectMessage(s) ==
  /\ scope[s].kind = "direct"
  /\ status[s] = "open"
  /\ \E event \in pending[s] :
       /\ inbox' = group_send(inbox, room_group_name(s), event)
       /\ pending' = [pending EXCEPT ![s] = @ \ {event}]
  /\ UNCHANGED <<db, scope, status, self_user, groups, out, nframes, last>>

\* save_direct_message up to DirectMessage.objects.create: the conversation
\* row has been read and the message row inserted; conversation.save() is
\* still to come.  Nothing makes the two statements one transaction.
InsertDirectMessage(s, content) ==
  /\ CanReceive(s, "direct")
  /\ Idle(s)
  /\ LET frame == [NoFrame EXCEPT !.type = "direct_message",
                                  !.content = content]
         c     == strip(content)
         id    == NextId(direct_messages)
         cid   == scope[s].target
     IN  /\ c # <<>>
         /\ cid \in DOMAIN conversations
         /\ \E recipient \in OtherParticipants(cid, self_user[s]) :
              LET row == DirectMessageRow(self_user[s], recipient, c, now)
              IN  /\ direct_messages' = direct_messages @@ (id :> row)
                  /\ pending' = [pending EXCEPT ![s] =
                       {[NoEvent EXCEPT !.type = "conversation_save",
                                        !.message_id = id]}]
                  /\ Handled(s, frame, "inserted")
  /\ UNCHANGED <<user_rows, chat_rooms, memberships, messages, reactions,
                 conversations, scope, status, self_user, groups, inbox, out>>

\* save_direct_message from conversation.last_message = message on:
\* conversation.save() writes the row with this handler's message as its
\* last message; the event of the message is then still to be sent.
SaveConversation(s) ==
  /\ scope[s].kind = "direct"
  /\ status[s] = "open"
  /\ \E i \in pending[s] :
       LET cid   == scope[s].target
           event == [NoEvent EXCEPT
                       !.type = "direct_message",
                       !.message = DirectMessageData(i.message_id,
                                     direct_messages[i.message_id])]
       IN  /\ i.type = "conversation_save"
           /\ cid \in DOMAIN conversations
           /\ conversations' =
                [conversations EXCEPT ![cid].last_message = i.message_id]
           /\ pending' = [pending EXCEPT ![s] = {event}]
  /\ UNCHANGED <<user_rows, chat_rooms, memberships, messages, reactions,
                 direct_messages, scope, status, self_user, groups, inbox,
                 out, nframes, last>>

\* handle_message_reaction with action 'add', up to the SELECT of
\* get_or_create: when the message is not found or the row is found, nothing
\* is inserted and the event is sent; when no row is found, the INSERT is
\* still to come.
ReactionGet(s, message_id, reaction_type) ==
  /\ CanReceive(s, "chat")
  /\ Idle(s)
  /\ LET frame == [NoFrame EXCEPT !.type = "message_reaction",
                                  !.message_id = message_id,
                                  !.reaction_type = reaction_type,
                                  !.action = "add"]
         event == [NoEvent EXCEPT !.type = "message_reaction",
                                  !.message_id = message_id,
                                  !.reaction_type = reaction_type,
                                  !.action = "add",
                                  !.user = username[self_user[s]]]
         row   == Reaction(message_id, self_user[s], reaction_type)
     IN  IF ReactionLookup(scope[s].target, message_id) /\ Matching(row) = {}
           THEN /\ pending' = [pending EXCEPT ![s] = @ \cup {event}]
                /\ Handled(s, frame, "selected")
                /\ UNCHANGED inbox
           ELSE /\ Handled(s, frame, "sent")
                /\ inbox' = group_send(inbox, room_group_name(s), event)
                /\ UNCHANGED pending
  /\ UNCHANGED <<db, scope, status, self_user, groups, out>>

\* handle_message_reaction from the INSERT of get_or_create on: the row is
\* inserted unless the unique constraint refuses it, in which case
\* get_or_create catches the IntegrityError and returns the stored row; the
\* event is sent either way.
ReactionCreate(s) ==
  /\ scope[s].kind = "chat"
  /\ status[s] = "open"
  /\ \E event \in pending[s] :
       LET row == Reaction(event.message_id, self_user[s],
                           event.reaction_type)
       IN  /\ event.type = "message_reaction"
           /\ IF unique_together(row)
                THEN /\ reactions' = reactions @@ (NextId(reactions) :> row)
                     /\ last' = [last EXCEPT !.sess = s, !.outcome = "created"]
                ELSE /\ reactions' = reactions
                     /\ last' = [last EXCEPT !.sess = s, !.outcome = "existing"]
           /\ inbox' = group_send(inbox, room_group_name(s), event)
           /\ pending' = [pending EXCEPT ![s] = @ \ {event}]
  /\ UNCHANGED <<user_rows, chat_rooms, memberships, messages, conversations,
                 direct_messages, scope, status, self_user, groups, out,
                 nframes>>

\* What a consumer holds between the SELECT and the UPDATE of an edit or a
\* delete: the model instance, a copy of the whole row as it was read, with
\* the handler's assignments made on it.
Instance(type, message_id, row) ==
  [NoEvent EXCEPT !.type = type, !.message_id = message_id, !.message = row]

\* handle_message_edit up to the SELECT of edit_message: Message.objects.get
\* loads the whole row, Message.edit_message assigns to the instance.
EditGet(s, message_id, content) ==
  /\ CanReceive(s, "chat")
  /\ Idle(s)
  /\ LET frame == [NoFrame EXCEPT !.type = "message_edit",
                                  !.message_id = message_id,
                                  !.content = content]
         c     == strip(content)
     IN  IF c = <<>>
           THEN /\ Handled(s, frame, "dropped")
                /\ UNCHANGED pending
         ELSE IF ~EditLookup(self_user[s], scope[s].target, message_id)
           THEN /\ Handled(s, frame, "none")
                /\ UNCHANGED pending
         ELSE /\ Handled(s, frame, "selected")
              /\ pending' = [pending EXCEPT ![s] =
                   {Instance("message_edit", message_id,
                             Message_edit_message(messages[message_id], c))}]
  /\ UNCHANGED <<db, scope, status, self_user, groups, inbox, out>>

\* handle_message_edit from self.save() on: save() writes every field of the
\* instance (no update_fields), then serialize_message runs.
EditSave(s) ==
  /\ scope[s].kind = "chat"
  /\ status[s] = "open"
  /\ \E i \in pending[s] :
       LET event == [NoEvent EXCEPT
                       !.type = "message_edited",
                       !.message = MessageData(i.message_id, i.message)]
       IN  /\ i.type = "message_edit"
           /\ i.message_id \in DOMAIN messages
           /\ messages' = [messages EXCEPT ![i.message_id] = i.message]
           /\ pending' = [pending EXCEPT ![s] = @ \ {i}]
           /\ IF serialize_message_raises
                THEN /\ status' = [status EXCEPT ![s] = "crashed"]
                     /\ Gone(s)
                ELSE /\ inbox' = group_send(inbox, room_group_name(s), event)
                     /\ UNCHANGED <<status, out>>
  /\ UNCHANGED <<user_rows, chat_rooms, memberships, reactions, conversations,
                 direct_messages, scope, self_user, groups, nframes, last>>

\* handle_message_delete up to the SELECT of delete_message.
DeleteGet(s, message_id) ==
  /\ CanReceive(s, "chat")
  /\ Idle(s)
  /\ LET frame == [NoFrame EXCEPT !.type = "message_delete",
                                  !.message_id = message_id]
     IN  IF ~DeleteLookup(self_user[s], scope[s].target, message_id)
           THEN /\ Handled(s, frame, "none")
                /\ UNCHANGED pending
           ELSE /\ Handled(s, frame, "selected")
                /\ pending' = [pending EXCEPT ![s] =
                     {Instance("message_delete", message_id,
                               Message_delete_message(messages[message_id]))}]
  /\ UNCHANGED <<db, scope, status, self_user, groups, inbox, out>>

\* handle_message_delete from self.save() on: every field of the instance
\* is written, then the message_deleted event is sent.
DeleteSave(s) ==
  /\ scope[s].kind = "chat"
  /\ status[s] = "open"
  /\ \E i \in pending[s] :
       LET event == [NoEvent EXCEPT !.type = "message_deleted",
                                    !.message_id = i.message_id]
       IN  /\ i.type = "message_delete"
           /\ i.message_id \in DOMAIN messages
           /\ messages' = [messages EXCEPT ![i.message_id] = i.message]
           /\ pending' = [pending EXCEPT ![s] = @ \ {i}]
           /\ inbox' = group_send(inbox, room_group_name(s), event)
  /\ UNCHANGED <<user_rows, chat_rooms, memberships, reactions, conversations,
                 direct_messages, scope, status, self_user, groups, out,
                 nframes, last>>

(* ---------------------- frames with null fields ----------------------- *)

\* receive -> handle_chat_message with "content": null.  data.get('content',
\* '') is None, the default is for a key that is missing; None.strip()
\* raises AttributeError, which receive does not catch.
HandleChatMessageNull(s) ==
  /\ CanReceive(s, "chat")
  /\ Handled(s, [NoFrame EXCEPT !.type = "chat_message",
                                !.nulls = {"content"}], "raised")
  /\ Crash(s)
  /\ Gone(s)
  /\ UNCHANGED <<db, scope, self_user, groups, pending>>

\* receive -> handle_message_edit with "content": null: None.strip() raises
\* before edit_message is called.
HandleMessageEditNull(s, message_id) ==
  /\ CanReceive(s, "chat")
  /\ Handled(s, [NoFrame EXCEPT !.type = "message_edit",
                                !.message_id = message_id,
                                !.nulls = {"content"}], "raised")
  /\ Crash(s)
  /\ Gone(s)
  /\ UNCHANGED <<db, scope, self_user, groups, pending>>

\* receive -> handle_direct_message with "content": null.
HandleDirectMessageNull(s) ==
  /\ CanReceive(s, "direct")
  /\ Handled(s, [NoFrame EXCEPT !.type = "direct_message",
                                !.nulls = {"content"}], "raised")
  /\ Crash(s)
  /\ Gone(s)
  /\ UNCHANGED <<db, scope, self_user, groups, pending>>

\* MessageReaction.reaction_type is a CharField without null=True: the
\* column is NOT NULL.
ReactionTypeNullable == FALSE

\* receive -> handle_message_reaction with reaction_type null or missing
\* (data.get gives None for both).  add: when the message is in the room,
\* get_or_create finds no row with reaction_type IS NULL, its INSERT breaks
\* NOT NULL and it raises IntegrityError, which nothing catches.  remove:
\* the filter matches no row.  Otherwise the event is sent with the frame's
\* values, its reaction_type None (the value of NoEvent here).
HandleMessageReactionNull(s, message_id, action) ==
  /\ CanReceive(s, "chat")
  /\ LET frame == [NoFrame EXCEPT !.type = "message_reaction",
                                  !.message_id = message_id,
                                  !.action = action,
                                  !.nulls = {"reaction_type"}]
         event == [NoEvent EXCEPT !.type = "message_reaction",
                                  !.message_id = message_id,
                                  !.action = action,
                                  !.user = username[self_user[s]]]
     IN  IF /\ action = "add"
            /\ ReactionLookup(scope[s].target, message_id)
            /\ ~ReactionTypeNullable
           THEN /\ Handled(s, frame, "raised")
                /\ Crash(s)
                /\ Gone(s)
           ELSE /\ Handled(s, frame, "sent")
                /\ inbox' = group_send(inbox, room_group_name(s), event)
                /\ UNCHANGED <<status, out>>
  /\ UNCHANGED <<db, scope, self_user, groups, pending>>

(* ------------------------------ REST views ---------------------------- *)

\* The roles remove_room_member lets remove a member.
RemoverRoles == {"admin", "moderator"}

\* views.remove_room_member, a DELETE request of an authenticated user: the
\* room is one the requester is a member of (else 404), the requester's role
\* is admin or moderator (else 403), the user exists (else 404);
\* ChatRoom.remove_member then deletes the user's membership rows of the
\* room.  Nothing is sent to the channel layer and no session is closed.
remove_room_member(requester, room_id, user_id) ==
  /\ room_id \in chat_rooms
  /\ \E m \in memberships :
       m.room = room_id /\ m.user = requester /\ m.role \in RemoverRoles
  /\ user_id \in DOMAIN user_rows
  /\ memberships' =
       {m \in memberships : ~(m.room = room_id /\ m.user = user_id)}
  /\ UNCHANGED <<user_rows, chat_rooms, messages, reactions, conversations,
                 direct_messages, scope, status, self_user, groups, inbox,
                 out, nframes, last>>
  /\ UNCHANGED pending

\* A ChatRoom row is deleted while sessions are joined to it (the rows go
\* with the user who created the room: created_by is on_delete=CASCADE).
\* The rows that reference the room go with it: memberships, messages and
\* the reactions on those messages.  No consumer is told, no group changes.
ChatRoom_delete(room_id) ==
  /\ room_id \in chat_rooms
  /\ chat_rooms' = chat_rooms \ {room_id}
  /\ memberships' = {m \in memberships : m.room # room_id}
  /\ messages' = [m \in {i \in DOMAIN messages : messages[i].room # room_id}
                   |-> messages[m]]
  /\ reactions' = [r \in {i \in DOMAIN reactions :
                            messages[reactions[i].message].room # room_id}
                    |-> reactions[r]]
  /\ UNCHANGED <<user_rows, conversations, direct_messages, scope, status,
                 self_user, groups, inbox, out, nframes, last, pending>>

\* A Conversation row is deleted while sessions are joined to it.  A
\* DirectMessage row has no reference to the conversation and stays.
Conversation_delete(conversation_id) ==
  /\ conversation_id \in DOMAIN conversations
  /\ conversations' = [c \in DOMAIN conversations \ {conversation_id}
                       |-> conversations[c]]
  /\ UNCHANGED <<user_rows, chat_rooms, memberships, messages, reactions,
                 direct_messages, scope, status, self_user, groups, inbox,
                 out, nframes, last, pending>>

\* Bookkeeping of one answered REST request: its status code.
Responded(code) ==
  /\ last' = [n |-> last.n, sess |-> 0, frame |-> NoFrame, outcome |-> code]
  /\ UNCHANGED nframes

\* The lookups a filter on `participants`, a relation to User, can end in;
\* `count` is none of them: filter(participants__count=2) raises FieldError
\* ("Related Field got invalid lookup: count").
RelatedFieldLookups ==
  {"exact", "in", "isnull", "gt", "gte", "lt", "lte"}

\* Mutant of get_or_create_conversation: only user1 is added.
get_or_create_conversation_one_sided(user1, user2) ==
  [raised |-> FALSE,
   rows |-> conversations @@
              (NextId(conversations) :>
                 [participants |-> {user1}, last_message |-> NoId])]

\* Conversation.get_or_create_conversation: the first conversation of both
\* users with two participants, else a new one to which both are added.
\* The third filter raises before any row is read or written.
get_or_create_conversation(user1, user2) ==
  IF "count" \notin RelatedFieldLookups
    THEN [raised |-> TRUE, rows |-> conversations]
  ELSE IF \E c \in DOMAIN conversations :
            /\ {user1, user2} \subseteq conversations[c].participants
            /\ Cardinality(conversations[c].participants) = 2
    THEN [raised |-> FALSE, rows |-> conversations]
  ELSE [raised |-> FALSE,
        rows |-> conversations @@
                   (NextId(conversations) :>
                      [participants |-> {user1, user2},
                       last_message |-> NoId])]

\* views.create_conversation, a POST of an authenticated user: 404 when
\* user_id names no user, 400 when it names the requester; the FieldError of
\* get_or_create_conversation is not caught and the response is a 500.
create_conversation(requester, user_id) ==
  /\ requester \in DOMAIN user_rows
  /\ IF user_id \notin DOMAIN user_rows
       THEN Responded("404") /\ UNCHANGED conversations
     ELSE IF user_id = requester
       THEN Responded("400") /\ UNCHANGED conversations
     ELSE LET res == get_or_create_conversation(requester, user_id)
          IN  /\ conversations' = res.rows
              /\ Responded(IF res.raised THEN "500" ELSE "200")
  /\ UNCHANGED <<user_rows, chat_rooms, memberships, messages, reactions,
                 direct_messages, scope, status, self_user, groups, inbox,
                 out, pending>>

\* ChatRoomSerializer.create, behind POST of an authenticated user on
\* ChatRoomListCreateView: the room row is inserted with created_by the
\* requester, add_member inserts the requester's membership, and its role
\* is set to 'admin'.  No other code gives a membership a role but the
\* default 'member'.
ChatRoomSerializer_create(requester) ==
  /\ requester \in DOMAIN user_rows
  /\ LET id == IF chat_rooms = {} THEN 1 ELSE Max(chat_rooms) + 1
     IN  /\ id \in RoomIds
         /\ chat_rooms' = chat_rooms \cup {id}
         /\ memberships' = memberships \cup
              {[room |-> id, user |-> requester, role |-> "admin"]}
  /\ UNCHANGED <<user_rows, messages, reactions, conversations,
                 direct_messages, scope, status, self_user, groups, inbox,
                 out, nframes, last, pending>>

\* views.add_room_member, a POST of an authenticated user: the room is one
\* the requester is a member of (else 404), the user exists (else 404);
\* ChatRoom.add_member is a get_or_create on (room, user) with the default
\* role, and the answer is 400 when the row was there already.
add_room_member(requester, room_id, user_id) ==
  /\ room_id \in chat_rooms
  /\ \E m \in memberships : m.room = room_id /\ m.user = requester
  /\ user_id \in DOMAIN user_rows
  /\ memberships' =
       IF \E m \in memberships : m.room = room_id /\ m.user = user_id
         THEN memberships
         ELSE memberships \cup
                {[room |-> room_id, user |-> user_id, role |-> "member"]}
  /\ UNCHANGED <<user_rows, chat_rooms, messages, reactions, conversations,
                 direct_messages, scope, status, self_user, groups, inbox,
                 out, nframes, last, pending>>

\* MessageReaction.REACTION_TYPES, the choices of reaction_type.  Choices
\* are checked by form and serializer validation (full_clean), not by
\* save() or get_or_create.
REACTION_TYPES == {"like", "love", "laugh", "wow", "sad", "angry"}

\* views.add_message_reaction, a POST of an authenticated user: the message
\* is one of a room the requester is a member of (else 404), a
\* reaction_type that is not in REACTION_TYPES is answered with 400, and the
\* reaction is stored through get_or_create.
views_add_message_reaction(requester, message_id, reaction_type) ==
  /\ message_id \in DOMAIN messages
  /\ \E m \in memberships :
       m.room = messages[message_id].room /\ m.user = requester
  /\ LET row == Reaction(message_id, requester, reaction_type)
     IN  reactions' =
           IF reaction_type \in REACTION_TYPES /\ unique_together(row)
             THEN reactions @@ (NextId(reactions) :> row)
             ELSE reactions
  /\ UNCHANGED <<user_rows, chat_rooms, memberships, messages, conversations,
                 direct_messages, scope, status, self_user, groups, inbox,
                 out, nframes, last, pending>>

(* ------------------------------- tasks -------------------------------- *)

\* timedelta(days=30) of cleanup_old_messages, in the model's clock ticks.
CleanupAge == 1

\* The rows a delete of the messages in S takes with it: Message.reply_to is
\* on_delete=CASCADE, so every reply to a deleted row is deleted, and the
\* replies to those.
RECURSIVE Cascade(_)
Cascade(S) ==
  LET more == S \cup {m \in DOMAIN messages : messages[m].reply_to \in S}
  IN  IF more = S THEN S ELSE Cascade(more)

\* task.cleanup_old_messages: the room messages and the direct messages
\* with created_at before the cutoff and is_deleted set are deleted.  The
\* delete takes the rows that reference them: replies and reactions
\* (CASCADE); a conversation's last_message is set to NULL (SET_NULL).
cleanup_old_messages ==
  LET cutoff_date == now - CleanupAge
      old_messages == {m \in DOMAIN messages :
                         /\ messages[m].created_at < cutoff_date
                         /\ messages[m].is_deleted}
      old_direct_messages == {d \in DOMAIN direct_messages :
                                /\ direct_messages[d].created_at < cutoff_date
                                /\ direct_messages[d].is_deleted}
      gone == Cascade(old_messages)
  IN  /\ messages' = [m \in DOMAIN messages \ gone |-> messages[m]]
      /\ reactions' = [r \in {i \in DOMAIN reactions :
                                reactions[i].message \notin gone}
                        |-> reactions[r]]
      /\ direct_messages' = [d \in DOMAIN direct_messages \ old_direct_messages
                               |-> direct_messages[d]]
      /\ conversations' =
           [c \in DOMAIN conversations |->
              IF conversations[c].last_message \in old_direct_messages
                THEN [conversations[c] EXCEPT !.last_message = NoId]
                ELSE conversations[c]]
      /\ UNCHANGED <<user_rows, chat_rooms, memberships, scope, status,
                     self_user, groups, inbox, out, nframes, last, pending>>

(* --------------------------- specification ---------------------------- *)

\* The whole engine: every handler of both consumers.
Next ==
  \/ \E requester \in UserIds, room_id \in RoomIds, user_id \in UserIds :
       remove_room_member(requester, room_id, user_id)
  \/ \E s \in Sessions :
    \/ ChatConnect(s)
    \/ ChatDisconnect(s)
    \/ ChatDisconnectDiscardFails(s)
    \/ ChatDeliver(s)
    \/ ChatDeliverTransportGone(s)
    \/ \E c \in ContentInputs, r \in ReplyToInputs : HandleChatMessage(s, c, r)
    \/ \E t \in BOOLEAN : HandleTyping(s, t)
    \/ \E m \in MessageIdInputs, k \in ReactionTypeInputs, a \in ActionInputs :
         HandleMessageReaction(s, m, k, a)
    \/ \E m \in MessageIdInputs, c \in ContentInputs : HandleMessageEdit(s, m, c)
    \/ \E m \in MessageIdInputs : HandleMessageDelete(s, m)
    \/ ReceiveInvalidJSON(s)
    \/ ReceiveUnknownType(s)
    \/ DirectConnect(s)
    \/ DirectDisconnect(s)
    \/ DirectDeliver(s)
    \/ \E c \in ContentInputs : HandleDirectMessage(s, c)
    \/ \E t \in BOOLEAN : DirectHandleTyping(s, t)
    \/ \E ids \in MessageIdsInputs : HandleMessageRead(s, ids)
    \/ DirectReceiveInvalidJSON(s)
    \/ DirectReceiveUnknownType(s)
    \/ \E c \in ContentInputs : SaveDirectMessage(s, c)
    \/ SendDirectMessage(s)
    \/ \E m \in DOMAIN messages, k \in ReactionTypeInputs : ReactionGet(s, m, k)
    \/ ReactionCreate(s)

Spec == Init /\ [][Next]_vars

(***************************************************************************)
(* Sub-specifications: the same initial states and actions, restricted to  *)
(* one kind of session and one family of frames.  Every behaviour of one   *)
(* of them is a behaviour of Spec.                                         *)
(***************************************************************************)

InitChat == Init /\ scope[1].kind = "chat"
InitDirect == Init /\ scope[1].kind = "direct"

ChatLifecycle ==
  \E s \in Sessions : ChatConnect(s) \/ ChatDisconnect(s) \/ ChatDeliver(s)

DirectLifecycle ==
  \E s \in Sessions :
    DirectConnect(s) \/ DirectDisconnect(s) \/ DirectDeliver(s)

\* Joining, leaving and typing, for both consumers.
NextJoin ==
  \/ ChatLifecycle
  \/ DirectLifecycle
  \/ \E s \in Sessions, t \in BOOLEAN : HandleTyping(s, t)
  \/ \E s \in Sessions, t \in BOOLEAN : DirectHandleTyping(s, t)

SpecJoin == Init /\ [][NextJoin]_vars

\* Room sessions creating, editing and deleting messages.
NextRoom ==
  \/ ChatLifecycle
  \/ \E s \in Sessions, c \in ContentInputs, r \in ReplyToInputs :
       HandleChatMessage(s, c, r)
  \/ \E s \in Sessions, m \in MessageIdInputs, c \in ContentInputs :
       HandleMessageEdit(s, m, c)
  \/ \E s \in Sessions, m \in MessageIdInputs : HandleMessageDelete(s, m)

SpecRoom == InitChat /\ [][NextRoom]_vars

\* Room sessions reacting to messages, the third client joining.
NextReact ==
  \/ \E s \in Sessions : ChatConnect(s) \/ ChatDeliver(s)
  \/ \E s \in Sessions, m \in MessageIdInputs, k \in ReactionTypeInputs,
        a \in ActionInputs : HandleMessageReaction(s, m, k, a)

SpecReact == InitChat /\ [][NextReact]_vars

\* Conversation sessions sending direct messages and read receipts.
NextDirect ==
  \/ DirectLifecycle
  \/ \E s \in Sessions, c \in ContentInputs : HandleDirectMessage(s, c)
  \/ \E s \in Sessions, ids \in MessageIdsInputs : HandleMessageRead(s, ids)

SpecDirect == InitDirect /\ [][NextDirect]_vars

\* Room sessions while members are removed through the REST view.
NextMember ==
  \/ ChatLifecycle
  \/ \E requester \in UserIds, room_id \in RoomIds, user_id \in UserIds :
       remove_room_member(requester, room_id, user_id)
  \/ \E s \in Sessions, t \in BOOLEAN : HandleTyping(s, t)

SpecMember == InitChat /\ [][NextMember]_vars

\* Room sessions closing while the channel layer may fail.
NextClose ==
  \/ ChatLifecycle
  \/ \E s \in Sessions : ChatDisconnectDiscardFails(s)
  \/ \E s \in Sessions, t \in BOOLEAN : HandleTyping(s, t)

SpecClose == InitChat /\ [][NextClose]_vars

\* Conversation sessions sending direct messages, each handler taken one
\* await at a time, so that handlers of different sessions interleave.
NextOrder ==
  \/ \E s \in Sessions : Idle(s) /\ DirectConnect(s)
  \/ \E s \in Sessions : Idle(s) /\ DirectDisconnect(s)
  \/ \E s \in Sessions : Idle(s) /\ DirectDeliver(s)
  \/ \E s \in Sessions, c \in ContentInputs : SaveDirectMessage(s, c)
  \/ \E s \in Sessions : SendDirectMessage(s)

SpecOrder == InitDirect /\ [][NextOrder]_vars

\* Both consumers taking frames that cannot be decoded or routed, while
\* typing events are in flight.
NextRouter ==
  \/ ChatLifecycle
  \/ DirectLifecycle
  \/ \E s \in Sessions : HandleTyping(s, TRUE)
  \/ \E s \in Sessions : DirectHandleTyping(s, TRUE)
  \/ \E s \in Sessions : ReceiveInvalidJSON(s)
  \/ \E s \in Sessions : ReceiveUnknownType(s)
  \/ \E s \in Sessions : DirectReceiveInvalidJSON(s)
  \/ \E s \in Sessions : DirectReceiveUnknownType(s)

SpecRouter == Init /\ [][NextRouter]_vars

\* Both consumers taking message-creating and message-editing frames whose
\* content is blank or not.
NextDrop ==
  \/ \E s \in Sessions : ChatConnect(s)
  \/ \E s \in Sessions : DirectConnect(s)
  \/ \E s \in Sessions : DirectDeliver(s)
  \/ \E s \in Sessions, c \in BlankInputs \cup ContentInputs :
       HandleChatMessage(s, c, NoId)
  \/ \E s \in Sessions, m \in MessageIdInputs,
        c \in BlankInputs \cup ContentInputs : HandleMessageEdit(s, m, c)
  \/ \E s \in Sessions, c \in BlankInputs \cup ContentInputs :
       HandleDirectMessage(s, c)

SpecDrop == Init /\ [][NextDrop]_vars

\* Room sessions typing while the transport of a session may be gone.
NextTransport ==
  \/ ChatLifecycle
  \/ \E s \in Sessions : ChatDeliverTransportGone(s)
  \/ \E s \in Sessions, t \in BOOLEAN : HandleTyping(s, t)

SpecTransport == InitChat /\ [][NextTransport]_vars

\* Room sessions adding reactions, get_or_create taken one statement at a
\* time, so that the handlers of two sessions interleave.
NextRace ==
  \/ \E s \in Sessions : Idle(s) /\ ChatConnect(s)
  \/ \E s \in Sessions, m \in DOMAIN messages, k \in ReactionTypeInputs :
       ReactionGet(s, m, k)
  \/ \E s \in Sessions : ReactionCreate(s)

SpecRace == InitChat /\ [][NextRace]_vars

\* Room sessions creating messages that name a reply target: none, a
\* message of the room, a message of another room, an id that is not stored.
NextReply ==
  \/ \E s \in Sessions : ChatConnect(s)
  \/ \E s \in Sessions, c \in ContentInputs,
        r \in ReplyToInputs \cup {NextId(messages)} :
       HandleChatMessage(s, c, r)

SpecReply == InitChat /\ [][NextReply]_vars

\* Message-creating frames of joined sessions while rooms and conversations
\* are deleted under them.
NextVanish ==
  \/ \E room_id \in RoomIds : ChatRoom_delete(room_id)
  \/ \E conversation_id \in ConversationIds :
       Conversation_delete(conversation_id)
  \/ \E s \in Sessions :
       \/ ChatConnect(s)
       \/ DirectConnect(s)
       \/ DirectDeliver(s)
       \/ \E c \in ContentInputs, r \in ReplyToInputs :
            HandleChatMessage(s, c, r)
       \/ \E c \in ContentInputs : HandleDirectMessage(s, c)

SpecVanish == Init /\ [][NextVanish]_vars

\* Room sessions removing reactions, stored or not.
NextUnreact ==
  \/ \E s \in Sessions : ChatConnect(s) \/ ChatDeliver(s)
  \/ \E s \in Sessions, m \in MessageIdInputs, k \in ReactionTypeInputs :
       HandleMessageReaction(s, m, k, "remove")

SpecUnreact == InitChat /\ [][NextUnreact]_vars

\* Recognized frames whose required field is missing or null.
NextFields ==
  \E s \in Sessions :
    \/ ChatConnect(s)
    \/ DirectConnect(s)
    \/ ChatDeliver(s)
    \/ HandleChatMessage(s, <<>>, NoId)
    \/ HandleChatMessageNull(s)
    \/ \E c \in ContentInputs : HandleMessageEdit(s, NoId, c)
    \/ \E m \in MessageIdInputs : HandleMessageEditNull(s, m)
    \/ HandleMessageDelete(s, NoId)
    \/ \E k \in ReactionTypeInputs, a \in ActionInputs :
         HandleMessageReaction(s, NoId, k, a)
    \/ \E m \in MessageIdInputs, a \in ActionInputs :
         HandleMessageReactionNull(s, m, a)
    \/ HandleDirectMessage(s, <<>>)
    \/ HandleDirectMessageNull(s)
    \/ HandleMessageRead(s, <<>>)

SpecFields == Init /\ [][NextFields]_vars

\* Conversations asked for through the REST view while their participants
\* send direct messages.
NextPair ==
  \/ \E requester \in UserIds, user_id \in UserIds \cup {4} :
       create_conversation(requester, user_id)
  \/ \E s \in Sessions : DirectConnect(s) \/ DirectDeliver(s)
  \/ \E s \in Sessions, c \in ContentInputs : HandleDirectMessage(s, c)

SpecPair == InitDirect /\ [][NextPair]_vars

\* Rooms created and members added and removed through the REST views while
\* clients join.
NextRooms ==
  \/ \E requester \in UserIds : ChatRoomSerializer_create(requester)
  \/ \E requester \in UserIds, room_id \in RoomIds, user_id \in UserIds :
       add_room_member(requester, room_id, user_id)
  \/ \E requester \in UserIds, room_id \in RoomIds, user_id \in UserIds :
       remove_room_member(requester, room_id, user_id)
  \/ \E s \in Sessions : ChatConnect(s)

SpecRooms == InitChat /\ [][NextRooms]_vars

\* Sessions editing and deleting messages, each handler split at its
\* database round trips.
NextEditRace ==
  \/ \E s \in Sessions : Idle(s) /\ ChatConnect(s)
  \/ \E s \in Sessions : ChatDeliver(s)
  \/ \E s \in Sessions, m \in MessageIdInputs, c \in ContentInputs :
       EditGet(s, m, c)
  \/ \E s \in Sessions : EditSave(s)
  \/ \E s \in Sessions, m \in MessageIdInputs : DeleteGet(s, m)
  \/ \E s \in Sessions : DeleteSave(s)

SpecEditRace == InitChat /\ [][NextEditRace]_vars

\* Conversation sessions sending direct messages, save_direct_message taken
\* one statement at a time.
NextLast ==
  \/ \E s \in Sessions : Idle(s) /\ DirectConnect(s)
  \/ \E s \in Sessions, c \in ContentInputs : InsertDirectMessage(s, c)
  \/ \E s \in Sessions : SaveConversation(s)
  \/ \E s \in Sessions :
       /\ \E e \in pending[s] : e.type = "direct_message"
       /\ SendDirectMessage(s)
  \/ \E s \in Sessions : DirectDeliver(s)

SpecLast == InitDirect /\ [][NextLast]_vars

\* Room sessions creating, replying to and deleting messages while the
\* periodic cleanup runs.
NextCleanup ==
  \/ cleanup_old_messages
  \/ \E s \in Sessions : ChatConnect(s) \/ ChatDeliver(s)
  \/ \E s \in Sessions, c \in ContentInputs, r \in ReplyToInputs :
       HandleChatMessage(s, c, r)
  \/ \E s \in Sessions, m \in MessageIdInputs : HandleMessageDelete(s, m)

SpecCleanup == InitChat /\ [][NextCleanup]_vars

\* Reactions added through the consumer and through the REST view (by bob,
\* member of room 1 only), with kinds inside and outside REACTION_TYPES.
KindInputs == ReactionTypeInputs \cup {"boo"}

NextKinds ==
  \/ \E s \in Sessions : ChatConnect(s)
  \/ \E s \in Sessions, m \in MessageIdInputs, k \in KindInputs :
       HandleMessageReaction(s, m, k, "add")
  \/ \E requester \in {2}, m \in {1, 2}, k \in KindInputs :
       views_add_message_reaction(requester, m, k)

SpecKinds == InitChat /\ [][NextKinds]_vars

(* ------------------------------- claims ------------------------------- *)

\* The step handled an inbound frame; last' says which, and for whom.
FrameStep(type) ==
  /\ nframes' = nframes + 1
  /\ last'.frame.type = type

\* The group the session's consumer sends to.
GroupOf(s) == GroupName(scope[s].kind, scope[s].target)

\* The sessions of s's group whose consumers are running.
LiveSet(s) == {t \in groups[GroupOf(s)] : status[t] = "open"}

\* Membership as the stored rows state it: a membership row of an existing
\* room, a participant of an existing conversation.
Member(user, h) ==
  IF h.kind = "chat"
    THEN /\ h.target \in chat_rooms
         /\ [room |-> h.target, user |-> user] \in
              {[room |-> m.room, user |-> m.user] : m \in memberships}
    ELSE /\ h.target \in DOMAIN conversations
         /\ user \in conversations[h.target].participants

\* C1: a session whose identity is not a member of the room, or not a
\* participant of the conversation, it asks for (also when that group is
\* not stored) is not open once it has tried to join, and is in the live
\* set of no group, in every state from then on.
C1_NonMemberNeverJoins ==
  \A s \in Sessions :
    (status[s] # "new" /\ ~Member(self_user[s], scope[s]))
      => /\ status[s] # "open"
         /\ \A g \in GroupNames : s \notin groups[g]

\* C1's case: a non-member was turned away, and afterwards a member of the
\* group it asked for fanned an event out.
C1_Witness ==
  \E s \in Sessions :
    /\ status[s] = "rejected"
    /\ ~Member(self_user[s], scope[s])
    /\ last.outcome = "sent"
    /\ scope[last.sess].target = scope[s].target

\* C2: a chat_message frame with non-blank content, sent on a session of a
\* stored room, stores a message of the sending identity with the trimmed
\* content, not deleted and not edited, and queues one chat_message event
\* carrying that message for every live session of the room, the sender's
\* included.
C2_CreateFansOut ==
  [][(/\ FrameStep("chat_message")
      /\ strip(last'.frame.content) # <<>>
      /\ scope[last'.sess].target \in chat_rooms)
     => LET a  == last'.sess
            id == NextId(messages)
        IN  /\ id \in DOMAIN messages'
            /\ messages'[id].sender = self_user[a]
            /\ messages'[id].content = strip(last'.frame.content)
            /\ ~messages'[id].is_deleted
            /\ ~messages'[id].is_edited
            /\ \A t \in LiveSet(a) :
                 inbox'[t] = Append(inbox[t],
                   [NoEvent EXCEPT !.type = "chat_message",
                      !.message = MessageData(id, messages'[id])])]_vars

\* C3: in every reachable state a deleted room message has the placeholder
\* as its content (no edit gets through once it is deleted).
C3_DeletedKeepsPlaceholder ==
  \A m \in DOMAIN messages :
    messages[m].is_deleted => messages[m].content = Placeholder

\* C4: a message_delete frame of the sender for a message that is already
\* deleted changes no field of any message and fans nothing out.
C4_SecondDeleteIsNoOp ==
  [][(/\ FrameStep("message_delete")
      /\ last'.frame.message_id \in DOMAIN messages
      /\ messages[last'.frame.message_id].is_deleted
      /\ messages[last'.frame.message_id].sender = self_user[last'.sess])
     => (messages' = messages /\ inbox' = inbox)]_vars

\* C5: a message_reaction add frame for a (message, user, kind) reaction
\* that is already stored leaves the stored reactions as they are and fans
\* nothing out.
C5_SecondAddIsSilent ==
  [][(/\ FrameStep("message_reaction")
      /\ last'.frame.action = "add"
      /\ Matching(Reaction(last'.frame.message_id, self_user[last'.sess],
                           last'.frame.reaction_type)) # {})
     => (reactions' = reactions /\ inbox' = inbox)]_vars

\* C6: a message_edit frame of a session whose identity is not the sender
\* of the message changes no message and fans nothing out.
C6_NonSenderEditChangesNothing ==
  [][(/\ FrameStep("message_edit")
      /\ last'.frame.message_id \in DOMAIN messages
      /\ messages[last'.frame.message_id].sender # self_user[last'.sess])
     => (messages' = messages /\ inbox' = inbox)]_vars

\* C6's case: a member has sent a non-blank edit for a message of its own
\* room that another member wrote.
C6_Witness ==
  /\ last.frame.type = "message_edit"
  /\ strip(last.frame.content) # <<>>
  /\ last.frame.message_id \in DOMAIN messages
  /\ messages[last.frame.message_id].room = scope[last.sess].target
  /\ messages[last.frame.message_id].sender # self_user[last.sess]
  /\ ~messages[last.frame.message_id].is_edited

\* C7: a message_delete frame of a session whose identity does not own the
\* message changes no message, fans nothing out, writes nothing (no error)
\* to any client and ends no session.
C7_NonOwnerDeleteChangesNothing ==
  [][(/\ FrameStep("message_delete")
      /\ last'.frame.message_id \in DOMAIN messages
      /\ messages[last'.frame.message_id].sender # self_user[last'.sess])
     => (/\ messages' = messages
         /\ inbox' = inbox
         /\ out' = out
         /\ status' = status)]_vars

\* C7's case: a member has sent a delete for a message of its own room that
\* another member wrote, and the message is not deleted.
C7_Witness ==
  /\ last.frame.type = "message_delete"
  /\ last.frame.message_id \in DOMAIN messages
  /\ messages[last.frame.message_id].room = scope[last.sess].target
  /\ messages[last.frame.message_id].sender # self_user[last.sess]
  /\ ~messages[last.frame.message_id].is_deleted
  /\ status[last.sess] = "open"

\* Whether id is one of the ids a message_read frame lists.
Listed(id, message_ids) ==
  \E i \in DOMAIN message_ids : message_ids[i] = id

\* C8: a message_read frame of participant A marks every listed direct
\* message that A received and has not read as read, with a read time, ends
\* without an error, and queues one messages_read event listing the
\* requested ids for every live session of the other participant.
C8_MarkReadFlipsAndNotifies ==
  [][FrameStep("message_read")
     => LET a   == last'.sess
            ids == last'.frame.message_ids
        IN  /\ \A id \in DOMAIN direct_messages :
                 (/\ Listed(id, ids)
                  /\ direct_messages[id].recipient = self_user[a]
                  /\ ~direct_messages[id].is_read)
                 => (/\ direct_messages'[id].is_read
                     /\ direct_messages'[id].read_at # NoTime)
            /\ status'[a] = "open"
            /\ \A t \in LiveSet(a) :
                 self_user[t] # self_user[a]
                 => inbox'[t] = Append(inbox[t],
                      [NoEvent EXCEPT !.type = "messages_read",
                         !.message_ids = ids,
                         !.user = username[self_user[a]]])]_vars

\* C9: a message_read frame changes no direct message whose recipient is
\* not the requesting identity, and none that is already read.
C9_MarkReadLeavesOthers ==
  [][FrameStep("message_read")
     => \A id \in DOMAIN direct_messages :
          (\/ direct_messages[id].recipient # self_user[last'.sess]
           \/ direct_messages[id].is_read)
          => direct_messages'[id] = direct_messages[id]]_vars

\* C9's case: a participant has sent a message_read frame listing an unread
\* message of another user's inbox and a message that was read before.
C9_Witness ==
  /\ last.frame.type = "message_read"
  /\ \E id \in DOMAIN direct_messages :
       /\ Listed(id, last.frame.message_ids)
       /\ direct_messages[id].recipient # self_user[last.sess]
       /\ ~direct_messages[id].is_read
  /\ \E id \in DOMAIN direct_messages :
       /\ Listed(id, last.frame.message_ids)
       /\ direct_messages[id].is_read
       /\ direct_messages[id].read_at = 1

\* The typing_indicator event a typing frame of session a produces.
TypingEvent(a, is_typing) ==
  [NoEvent EXCEPT !.type = "typing_indicator",
                  !.user = username[self_user[a]], !.is_typing = is_typing]

\* A typing frame queues one typing_indicator event, naming the sender and
\* carrying the sent is_typing, for every live session of the group, writes
\* to no client and changes no stored row.
C10_Send ==
  FrameStep("typing")
  => /\ \A t \in Sessions :
          inbox'[t] = IF t \in LiveSet(last'.sess)
                        THEN Append(inbox[t],
                               TypingEvent(last'.sess, last'.frame.is_typing))
                        ELSE inbox[t]
     /\ out' = out
     /\ UNCHANGED db

\* A session that takes a typing_indicator event from its channel writes it
\* to its client when the event names another user, and writes nothing
\* when it names the session's own user.
C10_Handle ==
  \A t \in Sessions :
    (/\ status[t] = "open" /\ status'[t] = "open"
     /\ nframes' = nframes
     /\ inbox[t] # <<>>
     /\ inbox'[t] = Tail(inbox[t])
     /\ Head(inbox[t]).type = "typing_indicator")
    => out'[t] = IF Head(inbox[t]).user # username[self_user[t]]
                   THEN Append(out[t], Head(inbox[t]))
                   ELSE out[t]

\* C10: when a session sends a typing frame, every live session of another
\* member of the group receives one typing_indicator naming the sender with
\* the sent is_typing value, the sender's own session receives nothing, and
\* no stored row changes.
C10_TypingReachesOthersOnly ==
  [][C10_Send /\ C10_Handle]_vars

\* C10's case: a typing frame with is_typing = true was sent, both sessions
\* have handled the event, the other member's client got it and the sender's
\* client got nothing.
C10_Witness ==
  \E a, b \in Sessions :
    /\ last.sess = a
    /\ last.frame.type = "typing"
    /\ last.frame.is_typing
    /\ self_user[b] # self_user[a]
    /\ status[a] = "open"
    /\ inbox[a] = <<>>
    /\ out[a] = <<>>
    /\ inbox[b] = <<>>
    /\ out[b] = <<TypingEvent(a, TRUE)>>

\* C11: a message_reaction frame, add or remove, whose message id is not
\* stored or is of a message of another room changes no stored reaction and
\* fans nothing out.
C11_ReactionOnForeignMessageIsSilent ==
  [][(/\ FrameStep("message_reaction")
      /\ \/ last'.frame.message_id \notin DOMAIN messages
         \/ messages[last'.frame.message_id].room # scope[last'.sess].target)
     => (reactions' = reactions /\ inbox' = inbox)]_vars

\* C12: in every reachable state every open session in the live set of a
\* room belongs to an identity that is a member of that room at that moment.
C12_LiveSetIsMembers ==
  \A s \in Sessions :
    (/\ scope[s].kind = "chat"
     /\ status[s] = "open"
     /\ s \in groups[GroupOf(s)])
    => Member(self_user[s], scope[s])

\* C13: a connection that fails the membership gate is closed and nothing
\* else happens: neither the step that rejects it nor its cleanup changes
\* the online flag or status of any user or queues an event, and the
\* cleanup ends without an error, also for an anonymous identity.
C13_RejectedLeavesNoTrace ==
  [][\A s \in Sessions :
       (\/ status[s] = "new" /\ status'[s] = "rejected"
        \/ status[s] = "rejected" /\ status'[s] # "rejected")
       => (/\ user_rows' = user_rows
           /\ inbox' = inbox
           /\ status'[s] \in {"rejected", "closed"})]_vars

\* The close of a joined session: its disconnect handler has run.
Closes(s) == status[s] = "open" /\ status'[s] = "closed"

C15_PresenceFlipSurvivesFailedUnregister ==
  [][\A s \in Sessions :
       (/\ scope[s].kind = "chat"
        /\ status[s] = "open"
        /\ status'[s] # "open"
        /\ nframes' = nframes)
       => ~user_rows'[self_user[s]].is_online]_vars

\* The direct_message events session t has been sent, in the order they
\* reached it: those its client got, then those still queued.
Stream(t) ==
  SelectSeq(out[t] \o inbox[t], LAMBDA e : e.type = "direct_message")

\* Whether the events of a stream are in the order their rows were stored
\* (ids are given out in that order), each at most once.
InStoredOrder(stream) ==
  \A i, j \in DOMAIN stream :
    i < j => stream[i].message.id < stream[j].message.id

\* C16: no session receives the event of a mutation before the event of a
\* mutation that was stored earlier on the same group, whichever sessions
\* made them, and none receives an event twice.
C16_EventsInStoredOrder ==
  \A t \in Sessions : InStoredOrder(Stream(t))

\* The direct_message events of stream that user wrote.
EventsOf(stream, user) ==
  SelectSeq(stream, LAMBDA e : e.message.sender = user)

\* Whether a is the only session its user has on its group.
SoleSession(a) ==
  \A b \in Sessions \ {a} : scope[b] # scope[a]

\* The events that came from the frames of one session reach every session
\* in the order of those frames.
OwnFramesInOrder ==
  \A a, t \in Sessions :
    (SoleSession(a) /\ scope[t].target = scope[a].target)
    => InStoredOrder(EventsOf(Stream(t), scope[a].token))

\* C17: a session's frames are handled one after the other: while the event
\* of its frame k is still to be sent, the session handles no frame k+1, and
\* the events of its frames are never reordered relative to each other.
C17_FramesOfASessionInOrder ==
  [][/\ \A s \in Sessions :
          ~Idle(s) => ~(nframes' = nframes + 1 /\ last'.sess = s)
     /\ OwnFramesInOrder']_vars

\* C17's case: one session has sent two direct_message frames and another
\* session has been sent both events.
C17_Witness ==
  \E a, t \in Sessions :
    /\ a # t
    /\ SoleSession(a)
    /\ last.sess = a
    /\ pending[a] = {}
    /\ Len(EventsOf(Stream(t), scope[a].token)) = 2

\* The frame of error receive() answers an undecodable frame with.
ErrorReply == [NoEvent EXCEPT !.type = "error"]

RoutesOf(s) ==
  IF scope[s].kind = "chat" THEN ChatRoutes ELSE DirectRoutes

\* C20: a decodable frame whose type has no branch in the session's
\* receive(), a room type on a conversation session and the reverse
\* included, changes no stored row, queues no event, writes nothing to any
\* client and leaves every session as it was.
C20_UnknownTypeIsIgnored ==
  [][(/\ nframes' = nframes + 1
      /\ last'.frame.type # "invalid_json"
      /\ last'.frame.type \notin RoutesOf(last'.sess))
     => /\ UNCHANGED db
        /\ inbox' = inbox
        /\ out' = out
        /\ status' = status
        /\ groups' = groups]_vars

\* C20's case: a joined room session has sent a direct_message frame, which
\* only the conversation consumer routes, and is still open.
C20_Witness ==
  /\ last.frame.type = "direct_message"
  /\ last.sess \in Sessions
  /\ scope[last.sess].kind = "chat"
  /\ status[last.sess] = "open"
  /\ last.sess \in groups[GroupOf(last.sess)]

\* Whether a content is empty or made of whitespace only.
OnlyWhitespace(c) == \A i \in DOMAIN c : c[i] = " "

\* C19: a chat_message, direct_message or message_edit frame whose content
\* is empty or only whitespace stores and changes no row, queues no event,
\* writes nothing (no error reply) to any client and ends no session.
C19_BlankContentIsDropped ==
  [][(/\ nframes' = nframes + 1
      /\ last'.frame.type \in {"chat_message", "direct_message",
                               "message_edit"}
      /\ OnlyWhitespace(last'.frame.content))
     => /\ UNCHANGED db
        /\ inbox' = inbox
        /\ out' = out
        /\ status' = status]_vars

\* C19's case: the sender of a stored message has sent a message_edit frame
\* for it whose content is two spaces, and is still open.
C19_Witness ==
  /\ last.frame.type = "message_edit"
  /\ last.frame.content = <<" ", " ">>
  /\ last.frame.message_id \in DOMAIN messages
  /\ messages[last.frame.message_id].sender = self_user[last.sess]
  /\ messages[last.frame.message_id].room = scope[last.sess].target
  /\ status[last.sess] = "open"

\* Whether the credential of session s names no stored user: it is absent
\* or invalid (0), or its user_id is of a user that is not stored.
NoStoredUser(s) == scope[s].token \notin UserIds

\* C21: a connection whose credential is absent, invalid or names a user
\* that is not stored gets the anonymous identity, its connect ends in a
\* rejection and not in an error, and the session is never open and never
\* in the live set of any group.
C21_BadCredentialIsAnonymousAndRejected ==
  [][\A s \in Sessions :
       NoStoredUser(s)
       => /\ (status[s] = "new" /\ status'[s] # "new")
             => (status'[s] = "rejected" /\ self_user'[s] = AnonymousUser)
          /\ status'[s] # "open"
          /\ \A g \in GroupNames : s \notin groups'[g]]_vars

\* C21's case: a client whose token names user 4, who is not stored, has
\* been rejected as anonymous while the members of the group are joined.
C21_Witness ==
  \E s \in Sessions :
    /\ scope[s].token = 4
    /\ status[s] = "rejected"
    /\ self_user[s] = AnonymousUser
    /\ LiveSet(s) = {1, 2}

\* C22: when the handler of a queued event finds its session's transport
\* gone, the events queued for the other sessions stay as they are, no
\* other session is ended, and the session itself, if it is ended, is
\* cleaned up: out of its group, its user's online flag false.
C22_FailedDeliveryIsContained ==
  [][\A s \in Sessions :
       (/\ status[s] = "open"
        /\ inbox[s] # <<>>
        /\ inbox'[s] # inbox[s]
        /\ nframes' = nframes
        /\ out'[s] # Append(out[s], Head(inbox[s])))
       => /\ \A t \in Sessions \ {s} :
               inbox'[t] = inbox[t] /\ status'[t] = status[t]
          /\ status'[s] # "open"
             => /\ s \notin groups'[GroupOf(s)]
                /\ ~user_rows'[self_user[s]].is_online]_vars

\* C23: a step in which a direct-message session is opened or closed changes
\* the online flag and status of no user; a room session that joins sets
\* its user online, and a joined room session that is closed sets it
\* offline.
C23_OnlyRoomSessionsFlipPresence ==
  [][\A s \in Sessions :
       status'[s] # status[s]
       => /\ scope[s].kind = "direct" => user_rows' = user_rows
          /\ (scope[s].kind = "chat" /\ status'[s] = "open")
             => user_rows'[self_user'[s]] =
                  [is_online |-> TRUE, status |-> "online"]
          /\ (scope[s].kind = "chat" /\ Closes(s))
             => user_rows'[self_user[s]] =
                  [is_online |-> FALSE, status |-> "offline"]]_vars

\* C23's case: a participant has opened a third direct-message session and
\* closed it again, and every user is still offline.
C23_Witness ==
  /\ scope[3].kind = "direct"
  /\ Member(self_user[3], scope[3])
  /\ status[3] = "closed"
  /\ \A u \in UserIds : ~user_rows[u].is_online /\ user_rows[u].status = "offline"

\* C24: in every reachable state no two stored reactions have the same
\* message, user and kind, also after two sessions of one user have added
\* the same reaction at the same time.
C24_OneReactionPerTriple ==
  \A i, j \in DOMAIN reactions :
    reactions[i] = reactions[j] => i = j

\* C24's case: a session found no row, another session inserted the row
\* first, the first session's INSERT was refused and it went on with the
\* stored row; the user also holds a reaction of the other kind on the same
\* message.
C24_Witness ==
  /\ last.outcome = "existing"
  /\ \E i, j \in DOMAIN reactions :
       /\ reactions[i].message = reactions[j].message
       /\ reactions[i].user = reactions[j].user
       /\ reactions[i].reaction_type # reactions[j].reaction_type

\* C25: in every reachable state a room message whose reply target is set
\* replies to a stored message of its own room.
C25_ReplyTargetInSameRoom ==
  \A m \in DOMAIN messages :
    messages[m].reply_to # NoId
    => /\ messages[m].reply_to \in DOMAIN messages
       /\ messages[messages[m].reply_to].room = messages[m].room

\* C25's case: one message was stored as a reply to a message of its room,
\* and the last chat_message frame, which named a message of another room or
\* an id that was not stored, was stored without a reply target.
C25_Witness ==
  /\ \E m \in DOMAIN messages : messages[m].reply_to # NoId
  /\ last.frame.type = "chat_message"
  /\ last.outcome = "raised"
  /\ last.frame.reply_to # NoId
  /\ \/ last.frame.reply_to = Max(DOMAIN messages)
     \/ messages[last.frame.reply_to].room # scope[last.sess].target
  /\ messages[Max(DOMAIN messages)].sender = self_user[last.sess]
  /\ messages[Max(DOMAIN messages)].reply_to = NoId

\* C26: a chat_message frame of a session whose room is not stored any more
\* stores no message and queues no event, and a direct_message frame of a
\* session whose conversation is not stored any more stores no direct
\* message, changes no conversation and queues no event.
C26_CreateInVanishedGroupDoesNothing ==
  [][/\ (FrameStep("chat_message")
         /\ scope[last'.sess].target \notin chat_rooms)
        => (messages' = messages /\ inbox' = inbox)
     /\ (FrameStep("direct_message")
         /\ scope[last'.sess].target \notin DOMAIN conversations)
        => /\ direct_messages' = direct_messages
           /\ conversations' = conversations
           /\ inbox' = inbox]_vars

\* C26's case: a joined session has sent a chat_message frame with content
\* that is not blank after its room was deleted, and is still open.
C26_Witness ==
  /\ last.frame.type = "chat_message"
  /\ ~OnlyWhitespace(last.frame.content)
  /\ scope[last.sess].target \notin chat_rooms
  /\ last.sess \in groups[GroupOf(last.sess)]
  /\ last.outcome = "none"
  /\ status[last.sess] = "open"

\* C27: a message_edit frame with content that is not blank, sent by the
\* sender of a stored message of the session's room, sets the message's
\* content to the trimmed content and its edited flag, and queues one
\* message_edited event carrying the message as it is after the edit for
\* every live session of the room.
C27_EditFansOutTheEditedMessage ==
  [][(/\ FrameStep("message_edit")
      /\ ~OnlyWhitespace(last'.frame.content)
      /\ last'.frame.message_id \in DOMAIN messages
      /\ messages[last'.frame.message_id].room = scope[last'.sess].target
      /\ messages[last'.frame.message_id].sender = self_user[last'.sess])
     => LET a  == last'.sess
            id == last'.frame.message_id
        IN  /\ messages'[id].content = strip(last'.frame.content)
            /\ messages'[id].is_edited
            /\ \A t \in LiveSet(a) :
                 inbox'[t] = Append(inbox[t],
                   [NoEvent EXCEPT !.type = "message_edited",
                      !.message = MessageData(id, messages'[id])])]_vars

\* C28: a message_edit or message_delete frame of a session of one room that
\* names a stored message of another room changes no message and queues no
\* event for any session, whoever the sender of the message is.
C28_OtherRoomMessageIsOutOfReach ==
  [][(/\ nframes' = nframes + 1
      /\ last'.frame.type \in {"message_edit", "message_delete"}
      /\ last'.frame.message_id \in DOMAIN messages
      /\ messages[last'.frame.message_id].room # scope[last'.sess].target)
     => (messages' = messages /\ inbox' = inbox)]_vars

\* C28's case: a session of one room has sent a message_delete frame for a
\* message of another room that its own identity sent; the message is not
\* deleted and the session is still open.
C28_Witness ==
  /\ last.frame.type = "message_delete"
  /\ last.frame.message_id \in DOMAIN messages
  /\ messages[last.frame.message_id].room # scope[last.sess].target
  /\ messages[last.frame.message_id].sender = self_user[last.sess]
  /\ ~messages[last.frame.message_id].is_deleted
  /\ status[last.sess] = "open"

\* C29: a message_reaction remove frame for a (message, user, kind) reaction
\* that is not stored leaves the stored reactions as they are; a remove
\* frame for a message of the session's room leaves no such reaction stored
\* (so a second one finds none and changes nothing); every other reaction
\* stays, nothing is written to the sender and its session does not end.
C29_RemoveIsIdempotent ==
  [][(/\ FrameStep("message_reaction")
      /\ last'.frame.action = "remove")
     => LET a   == last'.sess
            mid == last'.frame.message_id
            row == Reaction(mid, self_user[a], last'.frame.reaction_type)
        IN  /\ (\A i \in DOMAIN reactions : reactions[i] # row)
               => reactions' = reactions
            /\ (mid \in DOMAIN messages
                /\ messages[mid].room = scope[a].target)
               => \A i \in DOMAIN reactions' : reactions'[i] # row
            /\ \A i \in DOMAIN reactions :
                 reactions[i] # row
                 => (i \in DOMAIN reactions' /\ reactions'[i] = reactions[i])
            /\ out' = out
            /\ status' = status]_vars

\* C29's case: the user of the stored reaction has sent two remove frames
\* for it (another session of the room was sent both events); the reaction
\* is not stored and the sender's session is still open.
C29_Witness ==
  /\ last.n = 2
  /\ last.frame.type = "message_reaction"
  /\ last.frame.action = "remove"
  /\ \E t \in Sessions \ {last.sess} :
       Len(SelectSeq(out[t] \o inbox[t],
             LAMBDA e : /\ e.type = "message_reaction"
                        /\ e.action = "remove"
                        /\ e.message_id = 1
                        /\ e.reaction_type = "love"
                        /\ e.user = username[1])) = 2
  /\ self_user[last.sess] = 1
  /\ reactions = <<>>
  /\ status[last.sess] = "open"

\* Whether a frame of a recognized type lacks a required field: the key is
\* missing or its value is null.
MissingRequired(f) ==
  \/ /\ f.type \in {"chat_message", "direct_message", "message_edit"}
     /\ ("content" \in f.nulls \/ f.content = <<>>)
  \/ /\ f.type \in {"message_edit", "message_delete", "message_reaction"}
     /\ f.message_id = NoId
  \/ /\ f.type = "message_reaction"
     /\ "reaction_type" \in f.nulls
  \/ /\ f.type = "message_read"
     /\ f.message_ids = <<>>

\* C30: a frame of a recognized type whose required field is missing or
\* null changes no stored row, and the session that sent it stays open and
\* in the live set of its group.
C30_MissingFieldIsTreatedAsAbsent ==
  [][(nframes' = nframes + 1 /\ MissingRequired(last'.frame))
     => /\ UNCHANGED db
        /\ status'[last'.sess] = "open"
        /\ last'.sess \in groups'[GroupOf(last'.sess)]]_vars

C32_RoomKeepsItsAdminCreator ==
  /\ \A r \in chat_rooms :
       \E m \in memberships : m.room = r /\ m.role = "admin"
  /\ \A m1, m2 \in memberships :
       (m1.room = m2.room /\ m1.user = m2.user) => m1 = m2

\* C33: no step, under any interleaving of the reads and saves of edit and
\* delete handlers, takes a deleted message's flag back to false or its
\* content away from the placeholder.
C33_DeleteSurvivesRacingEdit ==
  [][\A m \in DOMAIN messages :
       (messages[m].is_deleted /\ messages[m].content = Placeholder)
       => /\ m \in DOMAIN messages'
          /\ messages'[m].is_deleted
          /\ messages'[m].content = Placeholder]_vars

\* C34: in every reachable state the identity of every accepted room
\* session that is still open has its online flag true.
C34_OpenRoomSessionMeansOnline ==
  \A s \in Sessions :
    (/\ scope[s].kind = "chat"
     /\ status[s] = "open"
     /\ s \in groups[GroupOf(s)])
    => user_rows[self_user[s]].is_online

\* Whether direct message d was exchanged between the two participants of
\* conversation c (a direct message row names no conversation).
BelongsTo(d, c) ==
  {direct_messages[d].sender, direct_messages[d].recipient}
    = conversations[c].participants

OpenFromStart == {s \in Sessions : s \in {1, 2}}

\* The message_edited events for message m that the client of session t has
\* been written, in the order they were written.
EditedEvents(t, m) ==
  SelectSeq(out[t], LAMBDA e : e.type = "message_edited" /\ e.message.id = m)

\* C36: when no edit is in progress and every queued event has been
\* delivered, every session that has been subscribed to the room all along
\* has, for every edited message of the room, a last message_edited event,
\* and that event carries the content that is stored for the message.
C36_LastEditedEventIsPersistedContent ==
  ((\A s \in Sessions : pending[s] = {} /\ inbox[s] = <<>>)
   => \A t \in OpenFromStart, m \in DOMAIN messages :
        (/\ status[t] = "open"
         /\ messages[m].room = scope[t].target
         /\ messages[m].is_edited)
        => /\ EditedEvents(t, m) # <<>>
           /\ EditedEvents(t, m)[Len(EditedEvents(t, m))].message.content
                = messages[m].content)

\* The direct messages of conversation c (see BelongsTo).
MessagesOf(c) == {d \in DOMAIN direct_messages : BelongsTo(d, c)}

\* C37: whenever no send is in progress, the last_message of every
\* conversation is the direct message of the conversation that was created
\* last (ids are given out in the order of creation).
C37_LastMessageIsNewest ==
  (\A s \in Sessions : pending[s] = {})
  => \A c \in DOMAIN conversations :
       MessagesOf(c) # {}
       => conversations[c].last_message = Max(MessagesOf(c))

\* The events whose handlers leave out the originating user.
ExcludingSender == {"typing_indicator", "messages_read"}

\* C38: a session that takes a typing_indicator or messages_read event from
\* its channel writes it to its client exactly when its own identity's
\* username is not the one the event names, whichever session the event
\* came from; so no client is ever written an event naming its own user.
C38_ExclusionIsByIdentity ==
  [][/\ \A t \in Sessions :
          (/\ status[t] = "open" /\ status'[t] = "open"
           /\ nframes' = nframes
           /\ inbox[t] # <<>>
           /\ inbox'[t] = Tail(inbox[t])
           /\ Head(inbox[t]).type \in ExcludingSender)
          => /\ (username[self_user[t]] # Head(inbox[t]).user)
                  <=> (out'[t] = Append(out[t], Head(inbox[t])))
             /\ (username[self_user[t]] = Head(inbox[t]).user)
                  <=> (out'[t] = out[t])
     /\ \A t \in Sessions : \A i \in DOMAIN out'[t] :
          out'[t][i].type \in ExcludingSender
          => out'[t][i].user # username[self_user[t]]]_vars

\* C38's case: an identity has two open sessions on one group, the later
\* one has sent a typing frame, every queued event has been handled, the
\* client of another identity was written the event and the clients of both
\* sessions of the originating identity were written nothing.
C38_Witness ==
  \E a, b, c \in Sessions :
    /\ a # b
    /\ last.sess = a
    /\ last.frame.type = "typing"
    /\ b \in OpenFromStart
    /\ scope[b] = scope[a]
    /\ self_user[b] = self_user[a]
    /\ status[a] = "open" /\ status[b] = "open"
    /\ self_user[c] # self_user[a]
    /\ \A t \in Sessions : inbox[t] = <<>>
    /\ out[a] = <<>>
    /\ out[b] = <<>>
    /\ out[c] = <<TypingEvent(a, last.frame.is_typing)>>

\* C39: no step removes a room message that is not soft-deleted from the
\* store; the cleanup in particular leaves the messages that reply to a
\* message it removes.
C39_OnlyDeletedMessagesAreRemoved ==
  [][\A m \in DOMAIN messages :
       ~messages[m].is_deleted => m \in DOMAIN messages']_vars

\* C40: in every reachable state the kind of every stored reaction is one
\* of REACTION_TYPES.
C40_StoredKindsAreAllowed ==
  \A r \in DOMAIN reactions : reactions[r].reaction_type \in REACTION_TYPES

====
